---- MODULE Spec2Model ----
(***************************************************************************)
(* A model of the reddit-mining dashboard: the subreddit lifecycle route   *)
(* handlers (create, read, update, delete with manual cascade), the seed   *)
(* script, the subreddit page's delete flow, the pain-point listing and    *)
(* detail handlers with the JSON columns they parse, the stats handler,    *)
(* the components that show a pain point's dimension scores, and the home  *)
(* page with its pager. Handlers run one awaited statement at a time; a    *)
(* second handler, the pipeline's inserts and the reading requests may run *)
(* between two statements.                                                 *)
(*                                                                         *)
(* A text (a name, a code, a query parameter, a column of type text) is a   *)
(* sequence of strings: its characters, or larger pieces where no code     *)
(* looks inside a piece (<<"d","a","i","l","y">> and <<"daily">> are both   *)
(* ways to write a text; the model writes each text one way throughout).   *)
(***************************************************************************)
EXTENDS Integers, Sequences, FiniteSets, TLC

VARIABLES
    subreddits,     \* table subreddits: set of rows
    posts,          \* table posts: set of rows
    painPoints,     \* table pain_points: set of rows
    painPointTags,  \* table pain_point_tags: set of rows
    nextId,         \* number of ids handed out so far (uuidv4 never repeats)
    req,            \* the route handler in flight: its locals, position and response
    ui,             \* SubredditsPage state: deletingSubreddit, deleteDialogOpen, toast
    list,           \* the pain-point listing: request parameters and response
    now,            \* the clock: minutes since the epoch (new Date())
    detail,         \* the pain-point detail request: its id and response
    stats,          \* the stats request: its header, locals and response
    view,           \* a rendered component or page: what it got and what it shows
    parked          \* a second route handler in flight, waiting at one of its awaits

vars == <<subreddits, posts, painPoints, painPointTags, nextId, req, ui, list,
          now, detail, stats, view, parked>>

\* what a statement of the handler in req leaves alone: the clock, the
\* requests and components that only read the tables, and the waiting handler
readVars == <<now, detail, stats, view, parked>>

dbVars == <<subreddits, posts, painPoints, painPointTags, nextId>>

---------------------------------------------------------------------------
(* Bounds of the model.                                                    *)

\* ids handed out over a run (subreddit, post and pain-point rows together)
MaxIds == 5
\* rows of table posts at any time
MaxPosts == 2
\* rows of table pain_points at any time
MaxPainPoints == 1
\* rows of table tags that tag-links may refer to
MaxTags == 1
\* the clock runs from StartTime to MaxNow
MaxNow == 2

---------------------------------------------------------------------------
(* JavaScript and SQL values.                                              *)

\* SQL NULL / JavaScript null in an id position; ids are 1, 2, ...
NULL == 0

Undefined == [t |-> "undefined"]

\* URLSearchParams.get of a parameter that is absent
Null == [t |-> "null"]

\* Number.NaN
NaN == [t |-> "NaN"]

Str(chars) == [t |-> "string", v |-> chars]

UpperCaseLetters ==
    <<"A","B","C","D","E","F","G","H","I","J","K","L","M",
      "N","O","P","Q","R","S","T","U","V","W","X","Y","Z">>

LowerCaseLetters ==
    <<"a","b","c","d","e","f","g","h","i","j","k","l","m",
      "n","o","p","q","r","s","t","u","v","w","x","y","z">>

DigitChars == <<"0","1","2","3","4","5","6","7","8","9">>

Range(s) == {s[i] : i \in DOMAIN s}

Digits == Range(DigitChars)

\* String.prototype.toLowerCase on one character
ToLowerChar(c) ==
    IF \E i \in DOMAIN UpperCaseLetters : UpperCaseLetters[i] = c
    THEN LowerCaseLetters[CHOOSE i \in DOMAIN UpperCaseLetters : UpperCaseLetters[i] = c]
    ELSE c

\* String.prototype.toLowerCase
toLowerCase(chars) == [i \in DOMAIN chars |-> ToLowerChar(chars[i])]

\* nameRegex.test(name) for /^[a-zA-Z0-9_]+$/
nameRegexTest(chars) ==
    /\ Len(chars) >= 1
    /\ \A i \in DOMAIN chars :
          chars[i] \in Range(UpperCaseLetters) \cup Range(LowerCaseLetters)
                         \cup Digits \cup {"_"}

Num(n) == [t |-> "number", v |-> n]

Bool(b) == [t |-> "boolean", v |-> b]

\* !v : the falsy values of JavaScript that occur here
IsFalsy(v) ==
    \/ v.t = "undefined"
    \/ v.t = "null"
    \/ v.t = "NaN"
    \/ (v.t = "string" /\ v.v = <<>>)
    \/ (v.t = "number" /\ v.v = 0)
    \/ (v.t = "boolean" /\ v.v = FALSE)

---------------------------------------------------------------------------
(* Responses.                                                              *)

\* A response: its status, whether it has a body, and of the JSON body the
\* value of success, the error code, the top-level keys and the meta object.
NoResponse ==
    [status |-> 0, code |-> "", hasBody |-> FALSE, success |-> FALSE, keys |-> {},
     meta |-> Null]

\* successResponse(data): NextResponse.json({success: true, data}), status 200
successResponse ==
    [status |-> 200, code |-> "OK", hasBody |-> TRUE, success |-> TRUE,
     keys |-> {"success", "data"}, meta |-> Null]

\* successResponse(data, meta): NextResponse.json({success: true, data, meta})
successResponseWith(meta) ==
    [successResponse EXCEPT !.keys = {"success", "data", "meta"}, !.meta = meta]

\* errorResponse(code, message, status)
errorResponse(code, status) ==
    [status |-> status, code |-> code, hasBody |-> TRUE, success |-> FALSE,
     keys |-> {"success", "error"}, meta |-> Null]

\* notFound answered as a bad request
notFoundAsBadRequest == errorResponse("NOT_FOUND", 400)

notFound == errorResponse("NOT_FOUND", 404)

validationError == errorResponse("VALIDATION_ERROR", 400)

databaseError == errorResponse("DATABASE_ERROR", 500)

subredditExists == errorResponse("SUBREDDIT_EXISTS", 400)

invalidSubredditName == errorResponse("INVALID_SUBREDDIT_NAME", 400)

\* new Response(null, { status: 204 })
noContent ==
    [status |-> 204, code |-> "", hasBody |-> FALSE, success |-> FALSE, keys |-> {},
     meta |-> Null]

---------------------------------------------------------------------------
(* Tables.                                                                 *)

Ids(rows) == {r.id : r \in rows}

\* the time at which the tables were created and seeded
StartTime == 0

\* a row of table subreddits: the nullable columns at NULL and the two
\* timestamps at their default unless the writer sets them
SubredditRow(id, name, isActive, fetchFrequency, postsLimit) ==
    [id |-> id, name |-> name, displayName |-> Null, description |-> Null,
     isActive |-> isActive, fetchFrequency |-> fetchFrequency, postsLimit |-> postsLimit,
     lastFetchedAt |-> Null, createdAt |-> StartTime, updatedAt |-> StartTime]

\* a row of table posts, process_status at its default
PostRow(id, subredditId, score, numComments) ==
    [id |-> id, subredditId |-> subredditId, score |-> score, numComments |-> numComments,
     processStatus |-> <<"pending">>]

\* the columns of pain_points an analysis may leave out, at their defaults
AnalysisDefaults ==
    [mentionedCompetitors |-> Null, quotes |-> Null, targetPersonas |-> Null,
     actionableInsights |-> Null, scoreUrgency |-> 0, scoreFrequency |-> 0,
     scoreMarketSize |-> 0, scoreMonetization |-> 0, scoreBarrierToEntry |-> 0,
     dimensionReasons |-> Null]

\* a row of table pain_points
PainPointRow(id, postId, a) ==
    [id |-> id, postId |-> postId, title |-> a.title, description |-> a.description,
     industryCode |-> a.industryCode, typeCode |-> a.typeCode,
     totalScore |-> a.totalScore, confidence |-> a.confidence, createdAt |-> a.createdAt]
    @@ [c \in DOMAIN AnalysisDefaults |->
           IF c \in DOMAIN a THEN a[c] ELSE AnalysisDefaults[c]]

\* a row of table pain_point_tags, primary key (pain_point_id, tag_id)
PainPointTagRow(painPointId, tagId) == [painPointId |-> painPointId, tagId |-> tagId]

\* the first two entries of subredditsData: one mixed-case name, one lower-case name
subredditsData ==
    << [name |-> <<"S","a","a","S">>, displayName |-> <<"S","a","a","S">>,
        description |-> <<"SaaS community">>, isActive |-> TRUE,
        fetchFrequency |-> <<"daily">>, postsLimit |-> 100],
       [name |-> <<"w","e","b","d","e","v">>, displayName |-> <<"Web Development">>,
        description |-> <<"web development community">>, isActive |-> TRUE,
        fetchFrequency |-> <<"daily">>, postsLimit |-> 100] >>

\* the content the analysis pipeline writes into a pain point it inserts
DefaultAnalysis ==
    [title |-> <<"a","b">>, description |-> <<"b">>, industryCode |-> <<"SAAS">>,
     typeCode |-> <<"POOR_UX">>, totalScore |-> 5, confidence |-> 1, createdAt |-> 1]

---------------------------------------------------------------------------
(* The handler in flight and the page.                                     *)

EmptyBody ==
    [name |-> Undefined, display_name |-> Undefined, description |-> Undefined,
     fetch_frequency |-> Undefined, posts_limit |-> Undefined, is_active |-> Undefined]

\* PATCH's updateData before any key is set (a key at undefined is a key absent:
\* set() skips it)
NoUpdate ==
    [displayName |-> Undefined, description |-> Undefined, isActive |-> Undefined,
     fetchFrequency |-> Undefined, postsLimit |-> Undefined, updatedAt |-> Undefined]

IdleReq ==
    [op |-> "none", pc |-> "idle", via |-> "api", id |-> NULL, body |-> EmptyBody,
     existing |-> {}, updateData |-> NoUpdate,
     postIds |-> {}, painPointIds |-> {}, threw |-> FALSE, resp |-> NoResponse]

\* no handler is between two of its statements
Quiet == req.pc \in {"idle", "done"}

\* the handler returns its response
Respond(r, response) == [r EXCEPT !.pc = "done", !.resp = response]

\* the response of a handler's catch block, with INTERNAL_ERROR for DATABASE_ERROR
caughtAsInternalError == errorResponse("INTERNAL_ERROR", 500)

\* the response of a handler's catch block: ApiErrors.databaseError(...)
caught == databaseError

\* a statement of the handler throws: its catch block logs and answers
Catch(r) == [Respond(r, caught) EXCEPT !.threw = TRUE]

IdleUi ==
    [deletingSubreddit |-> NULL, deleteDialogOpen |-> FALSE,
     isPending |-> FALSE, toast |-> "none"]

\* the listing has not been requested
NoList == [phase |-> "none"]

\* the detail of a pain point has not been requested
NoDetail == [phase |-> "none"]

\* the stats have not been requested
NoStats == [phase |-> "none"]

\* no component has rendered
NoView == [phase |-> "none"]

\* the clock at the start, no request to the reading endpoints yet and no
\* handler waiting
Unread ==
    /\ now = StartTime
    /\ detail = NoDetail
    /\ stats = NoStats
    /\ view = NoView
    /\ parked = IdleReq

---------------------------------------------------------------------------
(* Inputs.                                                                 *)

\* request bodies' name: missing, empty, seeded names in both cases, a fresh
\* valid name and a name with a space
NameInputs ==
    { Undefined, Str(<<>>),
      Str(<<"S","a","a","S">>), Str(<<"s","a","a","s">>),
      Str(<<"T","e","s","t","_","1","2","3">>),
      Str(<<"t","e","s","t"," ","1","2","3">>) }

FetchFrequencyInputs == { Undefined, Str(<<"hourly">>) }

PostsLimitInputs == { Undefined }

IsActiveInputs == { Undefined }

DisplayNameInputs == { Undefined }

DescriptionInputs == { Undefined }

BodyInputs ==
    [name : NameInputs, display_name : DisplayNameInputs, description : DescriptionInputs,
     fetch_frequency : FetchFrequencyInputs,
     posts_limit : PostsLimitInputs, is_active : IsActiveInputs]

\* ids a client may ask for: every id handed out so far and one that never was
IdInputs == 1..(nextId + 1)

---------------------------------------------------------------------------
(* scripts: src/lib/db/seed.ts                                             *)

RECURSIVE SeedRows(_, _, _)
\* for (const subreddit of subredditsData) insert ... onConflictDoNothing():
\* a row whose name (unique) is already in the table is skipped
SeedRows(table, data, n) ==
    IF data = <<>> THEN [table |-> table, n |-> n]
    ELSE LET d == Head(data) IN
         IF \E r \in table : r.name = d.name
         THEN SeedRows(table, Tail(data), n)
         ELSE SeedRows(table \cup {[SubredditRow(n + 1, d.name, d.isActive,
                                                  d.fetchFrequency, d.postsLimit)
                                        EXCEPT !.displayName = Str(d.displayName),
                                               !.description = Str(d.description)]},
                       Tail(data), n + 1)

seed ==
    /\ Quiet
    /\ LET out == SeedRows(subreddits, subredditsData, nextId) IN
          /\ out.n <= MaxIds
          /\ out.n > nextId
          /\ subreddits' = out.table
          /\ nextId' = out.n
    /\ UNCHANGED <<posts, painPoints, painPointTags, req, ui, list, readVars>>

---------------------------------------------------------------------------
(* The upstream pipeline's writes, as the schema allows them.              *)

\* a fetched post of a configured subreddit
InsertPost(subredditId) ==
    /\ Quiet
    /\ Cardinality(posts) < MaxPosts
    /\ nextId < MaxIds
    /\ subredditId \in Ids(subreddits)
    /\ posts' = posts \cup {PostRow(nextId + 1, subredditId, 0, 0)}
    /\ nextId' = nextId + 1
    /\ UNCHANGED <<subreddits, painPoints, painPointTags, req, ui, list, readVars>>

\* the pain point analysed from a post: post_id is unique
InsertPainPoint(postId) ==
    /\ Quiet
    /\ Cardinality(painPoints) < MaxPainPoints
    /\ nextId < MaxIds
    /\ postId \in Ids(posts)
    /\ ~ \E pp \in painPoints : pp.postId = postId
    /\ painPoints' = painPoints \cup {PainPointRow(nextId + 1, postId, DefaultAnalysis)}
    /\ nextId' = nextId + 1
    /\ UNCHANGED <<subreddits, posts, painPointTags, req, ui, list, readVars>>

\* a tag attached to a pain point
InsertPainPointTag(painPointId, tagId) ==
    /\ Quiet
    /\ painPointId \in Ids(painPoints)
    /\ PainPointTagRow(painPointId, tagId) \notin painPointTags
    /\ painPointTags' = painPointTags \cup {PainPointTagRow(painPointId, tagId)}
    /\ UNCHANGED <<subreddits, posts, painPoints, nextId, req, ui, list, readVars>>

---------------------------------------------------------------------------
(* GET /api/subreddits/[id]                                                *)

GET(id) ==
    /\ Quiet
    /\ LET result == {r \in subreddits : r.id = id} IN
          req' = Respond([IdleReq EXCEPT !.op = "GET", !.id = id],
                         IF result = {} THEN notFound ELSE successResponse)
    /\ UNCHANGED <<dbVars, ui, list, readVars>>

---------------------------------------------------------------------------
(* POST /api/subreddits                                                    *)

\* newSubreddit with the name as typed
newSubredditAsTyped(id, body) ==
    [SubredditRow(id, body.name.v, TRUE, <<"daily">>, 100)
        EXCEPT !.displayName = body.name, !.createdAt = now, !.updatedAt = now]

\* the record the handler builds for the insert
newSubreddit(id, body) ==
    [SubredditRow(id,
                  toLowerCase(body.name.v),
                  ~ (body.is_active.t = "boolean" /\ body.is_active.v = FALSE),
                  IF IsFalsy(body.fetch_frequency) THEN <<"daily">>
                                                   ELSE body.fetch_frequency.v,
                  IF IsFalsy(body.posts_limit) THEN 100 ELSE body.posts_limit.v)
        EXCEPT !.displayName = IF IsFalsy(body.display_name) THEN body.name
                                                             ELSE body.display_name,
               !.description = IF IsFalsy(body.description) THEN Null ELSE body.description,
               !.createdAt = now, !.updatedAt = now]

\* the rows the existence check selects
existingByName(body) == {r \in subreddits : r.name = toLowerCase(body.name.v)}

\* request.json(), the two validations and the existence check
POST(body) ==
    /\ Quiet
    /\ nextId < MaxIds
    /\ LET r == [IdleReq EXCEPT !.op = "POST", !.body = body] IN
          req' = IF IsFalsy(body.name) THEN Respond(r, validationError)
                 ELSE IF ~ nameRegexTest(body.name.v) THEN Respond(r, invalidSubredditName)
                 ELSE IF existingByName(body) # {} THEN Respond(r, subredditExists)
                 ELSE [r EXCEPT !.pc = "post_insert"]
    /\ UNCHANGED <<dbVars, ui, list, readVars>>

\* db.insert(subreddits).values(newSubreddit): the unique index on name makes the
\* statement throw, which the handler answers as databaseError
PostInsert ==
    /\ req.pc = "post_insert"
    /\ nextId < MaxIds
    /\ LET row == newSubreddit(nextId + 1, req.body) IN
          IF \E r \in subreddits : r.name = row.name
          THEN /\ req' = Catch(req)
               /\ UNCHANGED dbVars
          ELSE /\ subreddits' = subreddits \cup {row}
               /\ nextId' = nextId + 1
               /\ req' = Respond([req EXCEPT !.id = row.id], successResponse)
               /\ UNCHANGED <<posts, painPoints, painPointTags>>
    /\ UNCHANGED <<ui, list, readVars>>

---------------------------------------------------------------------------
(* DELETE /api/subreddits/[id]: one action per awaited statement           *)

\* const existing = await db.select().from(subreddits).where(eq(subreddits.id, id))
DeleteExisting(id, via) ==
    /\ Quiet
    /\ LET r == [IdleReq EXCEPT !.op = "DELETE", !.id = id, !.via = via] IN
          req' = IF {s \in subreddits : s.id = id} = {}
                 THEN Respond(r, notFound)
                 ELSE [r EXCEPT !.pc = "relatedPosts"]
    /\ UNCHANGED dbVars

\* the DELETE request of an API client
DELETE(id) ==
    /\ DeleteExisting(id, "api")
    /\ UNCHANGED <<ui, list, readVars>>

\* relatedPosts without its where clause
relatedPostsOfAll(id) == posts

\* the rows of posts the handler selects for the subreddit
relatedPosts(id) == {p \in posts : p.subredditId = id}

\* const relatedPosts = await db.select({id}).from(posts).where(eq(posts.subredditId, id))
DeleteRelatedPosts ==
    /\ req.pc = "relatedPosts"
    /\ LET postIds == Ids(relatedPosts(req.id)) IN
          req' = [req EXCEPT !.postIds = postIds,
                             !.pc = IF postIds # {} THEN "relatedPainPoints"
                                                    ELSE "deleteSubreddit"]
    /\ UNCHANGED <<dbVars, ui, list, readVars>>

\* const relatedPainPoints = await db.select({id}).from(painPoints)
\*                                   .where(inArray(painPoints.postId, postIds))
DeleteRelatedPainPoints ==
    /\ req.pc = "relatedPainPoints"
    /\ LET painPointIds == Ids({pp \in painPoints : pp.postId \in req.postIds}) IN
          req' = [req EXCEPT !.painPointIds = painPointIds,
                             !.pc = IF painPointIds # {} THEN "deletePainPointTags"
                                                         ELSE "deletePosts"]
    /\ UNCHANGED <<dbVars, ui, list, readVars>>

\* the handler without its statement 1: the tag-links are left in place
DeletePainPointTagsLeftOut ==
    /\ req.pc = "deletePainPointTags"
    /\ req' = [req EXCEPT !.pc = "deletePainPoints"]
    /\ UNCHANGED <<dbVars, ui, list, readVars>>

\* 1. await db.delete(painPointTags).where(inArray(painPointTags.painPointId, painPointIds))
DeletePainPointTags ==
    /\ req.pc = "deletePainPointTags"
    /\ painPointTags' = {t \in painPointTags : t.painPointId \notin req.painPointIds}
    /\ req' = [req EXCEPT !.pc = "deletePainPoints"]
    /\ UNCHANGED <<subreddits, posts, painPoints, nextId, ui, list, readVars>>

\* 2. await db.delete(painPoints).where(inArray(painPoints.id, painPointIds))
DeletePainPoints ==
    /\ req.pc = "deletePainPoints"
    /\ painPoints' = {pp \in painPoints : pp.id \notin req.painPointIds}
    /\ req' = [req EXCEPT !.pc = "deletePosts"]
    /\ UNCHANGED <<subreddits, posts, painPointTags, nextId, ui, list, readVars>>

\* 3. await db.delete(posts).where(inArray(posts.id, postIds))
DeletePosts ==
    /\ req.pc = "deletePosts"
    /\ posts' = {p \in posts : p.id \notin req.postIds}
    /\ req' = [req EXCEPT !.pc = "deleteSubreddit"]
    /\ UNCHANGED <<subreddits, painPoints, painPointTags, nextId, ui, list, readVars>>

\* 4. await db.delete(subreddits).where(eq(subreddits.id, id)); return 204
DeleteSubreddit ==
    /\ req.pc = "deleteSubreddit"
    /\ subreddits' = {s \in subreddits : s.id # req.id}
    /\ req' = Respond(req, noContent)
    /\ UNCHANGED <<posts, painPoints, painPointTags, nextId, ui, list, readVars>>

---------------------------------------------------------------------------
(* SubredditsPage: the delete dialog                                       *)

\* the row's delete menu item: the dialog opens for that subreddit
handleDeleteClick(subreddit) ==
    /\ Quiet
    /\ ~ ui.isPending
    /\ subreddit \in subreddits
    /\ ui' = [ui EXCEPT !.deletingSubreddit = subreddit.id, !.deleteDialogOpen = TRUE]
    /\ UNCHANGED <<dbVars, req, list, readVars>>

\* the dialog's confirm button: deleteMutation.mutateAsync(deletingSubreddit.id),
\* which sends DELETE /api/subreddits/{id}
handleDeleteConfirm ==
    /\ ui.deleteDialogOpen
    /\ ui.deletingSubreddit # NULL
    /\ ~ ui.isPending
    /\ DeleteExisting(ui.deletingSubreddit, "ui")
    /\ ui' = [ui EXCEPT !.isPending = TRUE]
    /\ UNCHANGED <<list, readVars>>

\* fetchApi: response.json() rejects on a response without a body, and a
\* response that is not ok is thrown as an Error
fetchApiThrows(response) == ~ response.hasBody \/ response.status \notin 200..299

\* the rest of handleDeleteConfirm once the request has been answered
handleDeleteSettled ==
    /\ ui.isPending
    /\ req.via = "ui"
    /\ req.pc = "done"
    /\ ui' = IF fetchApiThrows(req.resp)
             THEN [ui EXCEPT !.isPending = FALSE, !.toast = "error"]
             ELSE [ui EXCEPT !.isPending = FALSE, !.toast = "success",
                             !.deleteDialogOpen = FALSE, !.deletingSubreddit = NULL]
    /\ UNCHANGED <<dbVars, req, list, readVars>>

---------------------------------------------------------------------------
(* JavaScript and SQL functions the listing uses.                          *)

DigitValue(c) == CHOOSE n \in 0..9 : DigitChars[n + 1] = c

RECURSIVE SkipWhiteSpace(_)
SkipWhiteSpace(chars) ==
    IF chars # <<>> /\ Head(chars) = " " THEN SkipWhiteSpace(Tail(chars)) ELSE chars

RECURSIVE ParseDigits(_, _)
\* the value of the longest prefix of digits, acc being the value read so far
ParseDigits(chars, acc) ==
    IF chars = <<>> \/ Head(chars) \notin Digits THEN acc
    ELSE ParseDigits(Tail(chars), acc * 10 + DigitValue(Head(chars)))

\* parseInt(text, 10): leading white space, an optional sign, then as many
\* digits as there are; NaN when there is none
parseInt(chars) ==
    LET s == SkipWhiteSpace(chars)
        signed == s # <<>> /\ Head(s) \in {"-", "+"}
        digits == IF signed THEN Tail(s) ELSE s
    IN  IF digits = <<>> \/ Head(digits) \notin Digits THEN NaN
        ELSE IF signed /\ Head(s) = "-" THEN Num(0 - ParseDigits(digits, 0))
        ELSE Num(ParseDigits(digits, 0))

\* parseFloat on the texts used here, which hold no fraction and no exponent
parseFloat(chars) == parseInt(chars)

\* Math.max(a, x) and Math.min(a, x) with a number a: NaN when x is NaN
MathMax(a, x) == IF x.t = "NaN" THEN NaN ELSE Num(IF x.v > a THEN x.v ELSE a)

MathMin(a, x) == IF x.t = "NaN" THEN NaN ELSE Num(IF x.v < a THEN x.v ELSE a)

\* Math.ceil(total / perPage), perPage a positive number or NaN
MathCeilDiv(total, perPage) ==
    IF perPage.t = "NaN" THEN NaN ELSE Num((total + perPage.v - 1) \div perPage.v)

\* a || b on texts
OrElse(a, b) == IF IsFalsy(a) THEN b ELSE a

RECURSIVE SplitFrom(_, _)
SplitFrom(text, piece) ==
    IF text = <<>> THEN <<piece>>
    ELSE IF Head(text) = "," THEN <<piece>> \o SplitFrom(Tail(text), <<>>)
    ELSE SplitFrom(Tail(text), Append(piece, Head(text)))

\* text.split(",")
split(text) == SplitFrom(text, <<>>)

\* SQL: haystack LIKE '%needle%' on texts without % and _, letter case ignored
Like(haystack, needle) ==
    LET h == toLowerCase(haystack)
        n == toLowerCase(needle)
    IN  \E i \in 0..(Len(h) - Len(n)) : SubSeq(h, i + 1, i + Len(n)) = n

---------------------------------------------------------------------------
(* JSON.parse and property access. A JSON text is a sequence of tokens: the *)
(* punctuation [ ] { } , : and the quote, the pieces of a string between    *)
(* two quotes, digits, and the literals null, true and false.               *)

Array(values) == [t |-> "array", v |-> values]

\* an object from its members <<key, value>> in source order: a later member
\* with the same key wins
Object(members) ==
    [t |-> "object",
     v |-> [k \in {members[n][1] : n \in DOMAIN members} |->
              members[CHOOSE n \in DOMAIN members :
                         /\ members[n][1] = k
                         /\ \A m \in DOMAIN members : members[m][1] = k => m <= n][2]]]

\* the parser's result when the text is not JSON
SyntaxError == [ok |-> FALSE]

Parsed(v, next) == [ok |-> TRUE, v |-> v, i |-> next]

\* the position of the quote that closes the string opened before position i
ClosingQuote(toks, i) ==
    IF \E j \in i..Len(toks) : toks[j] = "\""
    THEN CHOOSE j \in i..Len(toks) : toks[j] = "\"" /\ \A k \in i..(j - 1) : toks[k] # "\""
    ELSE 0

\* the position after the run of digits that starts at position i
RECURSIVE AfterDigits(_, _)
AfterDigits(toks, i) ==
    IF i <= Len(toks) /\ toks[i] \in Digits THEN AfterDigits(toks, i + 1) ELSE i

RECURSIVE ParseValue(_, _), ParseElements(_, _, _), ParseMembers(_, _, _)

\* one JSON value starting at position i
ParseValue(toks, i) ==
    IF i > Len(toks) THEN SyntaxError
    ELSE CASE toks[i] = "[" ->
                 IF i + 1 <= Len(toks) /\ toks[i + 1] = "]" THEN Parsed(Array(<<>>), i + 2)
                 ELSE ParseElements(toks, i + 1, <<>>)
           [] toks[i] = "{" ->
                 IF i + 1 <= Len(toks) /\ toks[i + 1] = "}" THEN Parsed(Object(<<>>), i + 2)
                 ELSE ParseMembers(toks, i + 1, <<>>)
           [] toks[i] = "\"" ->
                 LET j == ClosingQuote(toks, i + 1) IN
                 IF j = 0 THEN SyntaxError ELSE Parsed(Str(SubSeq(toks, i + 1, j - 1)), j + 1)
           [] toks[i] \in Digits ->
                 LET j == AfterDigits(toks, i) IN
                 Parsed(Num(ParseDigits(SubSeq(toks, i, j - 1), 0)), j)
           [] toks[i] = "null" -> Parsed(Null, i + 1)
           [] toks[i] = "true" -> Parsed(Bool(TRUE), i + 1)
           [] toks[i] = "false" -> Parsed(Bool(FALSE), i + 1)
           [] OTHER -> SyntaxError

\* the elements of an array from position i on, acc being those read so far
ParseElements(toks, i, acc) ==
    LET e == ParseValue(toks, i) IN
    IF ~ e.ok \/ e.i > Len(toks) THEN SyntaxError
    ELSE IF toks[e.i] = "," THEN ParseElements(toks, e.i + 1, Append(acc, e.v))
    ELSE IF toks[e.i] = "]" THEN Parsed(Array(Append(acc, e.v)), e.i + 1)
    ELSE SyntaxError

\* the members of an object from position i on, acc being those read so far
ParseMembers(toks, i, acc) ==
    IF i > Len(toks) \/ toks[i] # "\"" THEN SyntaxError
    ELSE LET k == ParseValue(toks, i) IN
         IF ~ k.ok \/ k.i > Len(toks) \/ toks[k.i] # ":" THEN SyntaxError
         ELSE LET e == ParseValue(toks, k.i + 1) IN
              IF ~ e.ok \/ e.i > Len(toks) THEN SyntaxError
              ELSE IF toks[e.i] = ","
                   THEN ParseMembers(toks, e.i + 1, Append(acc, <<k.v.v, e.v>>))
              ELSE IF toks[e.i] = "}"
                   THEN Parsed(Object(Append(acc, <<k.v.v, e.v>>)), e.i + 1)
              ELSE SyntaxError

\* JSON.parse(text): the value, or not ok where JSON.parse throws
JSONparse(toks) ==
    LET r == ParseValue(toks, 1) IN
    IF r.ok /\ r.i = Len(toks) + 1 THEN r ELSE SyntaxError

\* v.key throws a TypeError
GetThrows(v) == v.t \in {"null", "undefined"}

\* v.key on a value other than null and undefined
Get(v, key) ==
    IF v.t = "object" /\ key \in DOMAIN v.v THEN v.v[key] ELSE Undefined

\* v?.key
GetOptional(v, key) == IF GetThrows(v) THEN Undefined ELSE Get(v, key)

\* parseJsonField answering an empty array for a text that is not JSON
parseJsonFieldAsEmptyArray(field) ==
    IF IsFalsy(field) THEN Null
    ELSE IF JSONparse(field.v).ok THEN JSONparse(field.v).v ELSE Array(<<>>)

\* parseJsonField and parseDimensionReasons: null for a column that is null or
\* empty and for a text JSON.parse throws on, else whatever the text parses to
parseJsonField(field) ==
    IF IsFalsy(field) THEN Null
    ELSE IF JSONparse(field.v).ok THEN JSONparse(field.v).v ELSE Null

\* the five scoring dimensions and the score column of each
Dimensions == {"urgency", "frequency", "market_size", "monetization", "barrier_to_entry"}

ScoreColumn(dimension) ==
    CASE dimension = "urgency" -> "scoreUrgency"
      [] dimension = "frequency" -> "scoreFrequency"
      [] dimension = "market_size" -> "scoreMarketSize"
      [] dimension = "monetization" -> "scoreMonetization"
      [] dimension = "barrier_to_entry" -> "scoreBarrierToEntry"

---------------------------------------------------------------------------
(* GET /api/pain-points                                                    *)

NoPost == PostRow(NULL, NULL, NULL, NULL)

NoSubreddit == SubredditRow(NULL, <<>>, FALSE, <<>>, NULL)

\* baseQuery: pain_points left join posts left join subreddits
Joined(pp) ==
    LET post == IF \E p \in posts : p.id = pp.postId
                THEN CHOOSE p \in posts : p.id = pp.postId ELSE NoPost
        subreddit == IF \E r \in subreddits : r.id = post.subredditId
                     THEN CHOOSE r \in subreddits : r.id = post.subredditId
                     ELSE NoSubreddit
    IN  [painPoint |-> pp, post |-> post, subreddit |-> subreddit]

baseQuery == {Joined(pp) : pp \in painPoints}

\* the conditions array the handler builds from search, industry, type and the
\* score range
conditions(params) ==
    (IF ~ IsFalsy(params.search)
        THEN <<[on |-> "search", q |-> params.search.v]>> ELSE <<>>)
    \o (IF ~ IsFalsy(params.industry)
        THEN <<[on |-> "industry_code", in |-> split(params.industry.v)]>> ELSE <<>>)
    \o (IF ~ IsFalsy(params.type)
        THEN <<[on |-> "type_code", in |-> split(params.type.v)]>> ELSE <<>>)
    \o (IF ~ IsFalsy(params.score_min)
        THEN <<[on |-> "score_min", n |-> parseFloat(params.score_min.v)]>> ELSE <<>>)
    \o (IF ~ IsFalsy(params.score_max)
        THEN <<[on |-> "score_max", n |-> parseFloat(params.score_max.v)]>> ELSE <<>>)

\* the condition on subreddits.name built from the subreddit parameter
subredditCondition(params) ==
    <<[on |-> "subreddit", in |-> split(params.subreddit.v)]>>

\* one condition on one joined row
Holds(c, row) ==
    CASE c.on = "search" ->
            Like(row.painPoint.title, c.q) \/ Like(row.painPoint.description, c.q)
      [] c.on = "industry_code" -> row.painPoint.industryCode \in Range(c.in)
      [] c.on = "type_code" -> row.painPoint.typeCode \in Range(c.in)
      [] c.on = "score_min" -> row.painPoint.totalScore >= c.n.v
      [] c.on = "score_max" -> row.painPoint.totalScore <= c.n.v
      [] c.on = "subreddit" ->
            row.subreddit.id # NULL /\ row.subreddit.name \in Range(c.in)

\* and(...conditions)
HoldsAll(cs, row) == \A i \in DOMAIN cs : Holds(cs[i], row)

\* a NaN among the values bound to a statement makes the database client throw
BindsNaN(cs) == \E i \in DOMAIN cs : cs[i].on \in {"score_min", "score_max"} /\ cs[i].n.t = "NaN"

\* the where clause of the page query. Query builders are mutable and where()
\* assigns the builder's single where clause: the call for the subreddit
\* filter replaces the clause set from conditions.
filteredWhere(params) ==
    IF ~ IsFalsy(params.subreddit) THEN subredditCondition(params)
    ELSE conditions(params)

\* the where clause of the count query
countWhere(params) == conditions(params)

\* orderBy with the new-style branch always descending
orderByAlwaysDesc(params) ==
    LET sort == OrElse(params.sort, Str(<<"created_at_desc">>)).v
    IN  CASE sort \in {<<"total_score">>, <<"score_desc">>, <<"score_asc">>}
               -> [column |-> "total_score", direction |-> "desc"]
          [] sort \in {<<"confidence">>, <<"confidence_desc">>, <<"confidence_asc">>}
               -> [column |-> "confidence", direction |-> "desc"]
          [] sort = <<"reddit_score_desc">> -> [column |-> "posts.score", direction |-> "desc"]
          [] sort = <<"comments_desc">> -> [column |-> "posts.num_comments", direction |-> "desc"]
          [] OTHER -> [column |-> "created_at", direction |-> "desc"]

\* orderBy with the default of the legacy branch ascending
orderByDefaultAsc(params) ==
    LET sort == OrElse(params.sort, Str(<<"created_at_desc">>)).v
        isAsc == OrElse(params.order, Str(<<"desc">>)).v = <<"asc">>
    IN  CASE sort \in {<<"total_score">>, <<"score_desc">>, <<"score_asc">>}
               -> [column |-> "total_score",
                   direction |-> IF sort = <<"score_asc">> \/ (sort = <<"total_score">> /\ isAsc)
                                 THEN "asc" ELSE "desc"]
          [] sort \in {<<"confidence">>, <<"confidence_desc">>, <<"confidence_asc">>}
               -> [column |-> "confidence",
                   direction |-> IF sort = <<"confidence_asc">> \/ (sort = <<"confidence">> /\ isAsc)
                                 THEN "asc" ELSE "desc"]
          [] sort = <<"reddit_score_desc">> -> [column |-> "posts.score", direction |-> "desc"]
          [] sort = <<"comments_desc">> -> [column |-> "posts.num_comments", direction |-> "desc"]
          [] sort = <<"created_at">> -> [column |-> "created_at",
                                         direction |-> IF isAsc THEN "asc" ELSE "desc"]
          [] sort = <<"created_at_desc">> -> [column |-> "created_at", direction |-> "desc"]
          [] OTHER -> [column |-> "created_at", direction |-> "asc"]

\* the ORDER BY the handler resolves from sort and order
orderBy(params) ==
    LET sort == OrElse(params.sort, Str(<<"created_at_desc">>)).v
        order == OrElse(params.order, Str(<<"desc">>)).v
        isAsc == order = <<"asc">>
        direction == IF isAsc THEN "asc" ELSE "desc"
    IN  IF sort \in {<<"total_score">>, <<"confidence">>, <<"created_at">>}
        THEN CASE sort = <<"total_score">> -> [column |-> "total_score", direction |-> direction]
               [] sort = <<"confidence">> -> [column |-> "confidence", direction |-> direction]
               [] sort = <<"created_at">> -> [column |-> "created_at", direction |-> direction]
        ELSE CASE sort = <<"score_desc">> -> [column |-> "total_score", direction |-> "desc"]
               [] sort = <<"score_asc">> -> [column |-> "total_score", direction |-> "asc"]
               [] sort = <<"confidence_desc">> -> [column |-> "confidence", direction |-> "desc"]
               [] sort = <<"confidence_asc">> -> [column |-> "confidence", direction |-> "asc"]
               [] sort = <<"created_at_asc">> -> [column |-> "created_at", direction |-> "asc"]
               [] sort = <<"reddit_score_desc">> -> [column |-> "posts.score", direction |-> "desc"]
               [] sort = <<"comments_desc">> -> [column |-> "posts.num_comments", direction |-> "desc"]
               [] OTHER -> [column |-> "created_at", direction |-> "desc"]

\* the value of an ORDER BY column in a joined row
ColumnOf(row, column) ==
    CASE column = "total_score" -> row.painPoint.totalScore
      [] column = "confidence" -> row.painPoint.confidence
      [] column = "created_at" -> row.painPoint.createdAt
      [] column = "posts.score" -> row.post.score
      [] column = "posts.num_comments" -> row.post.numComments

\* seq lists rows in the order ob asks for (rows with equal keys in any order)
InOrder(seq, ob) ==
    \A i, j \in DOMAIN seq :
        i < j => IF ob.direction = "asc"
                 THEN ColumnOf(seq[i], ob.column) <= ColumnOf(seq[j], ob.column)
                 ELSE ColumnOf(seq[i], ob.column) >= ColumnOf(seq[j], ob.column)

\* SQL: the orders in which SELECT ... ORDER BY may return a set of rows
OrderedBy(rows, ob) ==
    {seq \in [1..Cardinality(rows) -> rows] :
        Range(seq) = rows /\ InOrder(seq, ob)}

\* SQL: LIMIT perPage OFFSET offset
LimitOffset(seq, perPage, offset) ==
    SubSeq(seq, offset + 1, IF offset + perPage < Len(seq) THEN offset + perPage ELSE Len(seq))

\* x || ""
OrEmpty(x) == IF IsFalsy(x) THEN Str(<<>>) ELSE x

\* the listing's dimension_reasons: null for a column that is null or empty and
\* when the block throws (JSON.parse on a malformed text, parsed.urgency on a
\* text that parses to null), else the five reasons
dimension_reasons(field) ==
    IF IsFalsy(field) THEN Null
    ELSE LET parsed == JSONparse(field.v) IN
         IF ~ parsed.ok \/ GetThrows(parsed.v) THEN Null
         ELSE [d \in Dimensions |->
                 OrEmpty(GetOptional(Get(parsed.v, <<d>>), <<"reason">>))]

\* the names of the tags attached to a pain point (a tag's name is its id here)
tagNames(id) == {t.tagId : t \in {l \in painPointTags : l.painPointId = id}}

\* one element of the response's data array (the fields the claims read)
Formatted(row) ==
    [id |-> row.painPoint.id,
     title |-> row.painPoint.title,
     mentioned_competitors |-> parseJsonField(row.painPoint.mentionedCompetitors),
     quotes |-> parseJsonField(row.painPoint.quotes),
     target_personas |-> parseJsonField(row.painPoint.targetPersonas),
     actionable_insights |-> parseJsonField(row.painPoint.actionableInsights),
     dimension_scores |-> [d \in Dimensions |-> row.painPoint[ScoreColumn(d)]],
     dimension_reasons |-> dimension_reasons(row.painPoint.dimensionReasons),
     tags |-> tagNames(row.painPoint.id),
     industry_code |-> row.painPoint.industryCode,
     type_code |-> row.painPoint.typeCode,
     total_score |-> row.painPoint.totalScore,
     confidence |-> row.painPoint.confidence,
     created_at |-> row.painPoint.createdAt,
     post |-> [id |-> row.post.id, score |-> row.post.score,
               num_comments |-> row.post.numComments,
               subreddit |-> [id |-> row.subreddit.id, name |-> row.subreddit.name]]]

\* offsetOf counting pages from zero
offsetOfPageTimesPerPage(page, perPage) ==
    IF page.t = "NaN" \/ perPage.t = "NaN" THEN NaN ELSE Num(page.v * perPage.v)

\* const offset = (page - 1) * perPage
offsetOf(page, perPage) ==
    IF page.t = "NaN" \/ perPage.t = "NaN" THEN NaN ELSE Num((page.v - 1) * perPage.v)

\* the handler, from the parameters to the response
GET_painPoints(params) ==
    /\ list = NoList
    /\ LET page == MathMax(1, parseInt(OrElse(params.page, Str(<<"1">>)).v))
           limitParam == OrElse(params.limit, OrElse(params.per_page, Str(<<"2","0">>)))
           perPage == MathMin(100, MathMax(1, parseInt(limitParam.v)))
           offset == offsetOf(page, perPage)
           ob == orderBy(params)
           locals == [phase |-> "done", params |-> params, page |-> page,
                      perPage |-> perPage, offset |-> offset, orderBy |-> ob]
       IN  IF BindsNaN(countWhere(params))
           THEN list' = [locals EXCEPT !.phase = "threw"] @@
                        [total |-> NaN, totalPages |-> NaN, data |-> <<>>,
                         resp |-> caught]
           ELSE
           LET total == Cardinality({row \in baseQuery : HoldsAll(countWhere(params), row)})
               totalPages == MathCeilDiv(total, perPage)
               counted == locals @@ [total |-> Num(total), totalPages |-> totalPages]
           IN  IF offset.t = "NaN" \/ BindsNaN(filteredWhere(params))
               THEN list' = [counted EXCEPT !.phase = "threw"] @@
                            [data |-> <<>>, resp |-> caught]
               ELSE \E results \in OrderedBy({row \in baseQuery :
                                                HoldsAll(filteredWhere(params), row)}, ob) :
                       list' = counted @@
                           [data |-> [i \in DOMAIN LimitOffset(results, perPage.v, offset.v)
                                        |-> Formatted(LimitOffset(results, perPage.v, offset.v)[i])],
                            resp |-> successResponseWith(
                                        [page |-> page, limit |-> perPage,
                                         total |-> Num(total), totalPages |-> totalPages])]
    /\ UNCHANGED <<dbVars, req, ui, readVars>>

---------------------------------------------------------------------------
(* The listing's inputs.                                                   *)

PageInputs ==
    { Null, Str(<<>>), Str(<<"0">>), Str(<<"-","3">>), Str(<<"2">>), Str(<<"3">>),
      Str(<<"a","b","c">>) }

LimitInputs ==
    { Null, Str(<<>>), Str(<<"0">>), Str(<<"-","1">>), Str(<<"1">>), Str(<<"2">>),
      Str(<<"1","5","0">>), Str(<<"x">>) }

PerPageInputs == { Null, Str(<<"3">>), Str(<<"5","0","0">>) }

SearchInputs == { Null, Str(<<"a">>) }

IndustryInputs == { Null, Str(<<"DEV_TOOLS">>), Str(<<"DEV_TOOLS", ",", "SAAS">>) }

TypeInputs == { Null, Str(<<"POOR_UX">>) }

SubredditInputs ==
    { Null, Str(<<"w","e","b","d","e","v">>),
      Str(<<"S","a","a","S",",","w","e","b","d","e","v">>) }

ScoreMinInputs == { Null, Str(<<"5">>) }

ScoreMaxInputs == { Null, Str(<<"7">>) }

SortInputs ==
    { Null, Str(<<"total_score">>), Str(<<"confidence">>), Str(<<"created_at">>),
      Str(<<"score_desc">>), Str(<<"score_asc">>), Str(<<"confidence_desc">>),
      Str(<<"confidence_asc">>), Str(<<"created_at_asc">>), Str(<<"created_at_desc">>),
      Str(<<"reddit_score_desc">>), Str(<<"comments_desc">>), Str(<<"votes">>) }

OrderInputs == { Null, Str(<<"asc">>), Str(<<"desc">>), Str(<<"ASC">>) }

\* requests that vary the filters, on the first two pages
FilterRequests ==
    [page : {Null, Str(<<"2">>)}, limit : {Null, Str(<<"1">>)}, per_page : {Null},
     search : SearchInputs, industry : IndustryInputs, type : TypeInputs,
     subreddit : SubredditInputs, score_min : ScoreMinInputs, score_max : ScoreMaxInputs,
     sort : {Null}, order : {Null}]

\* requests that vary the sort
SortRequests ==
    [page : {Null}, limit : {Null}, per_page : {Null},
     search : {Null}, industry : {Null}, type : {Null},
     subreddit : {Null}, score_min : {Null}, score_max : {Null},
     sort : SortInputs, order : OrderInputs]

\* requests that vary the pagination
PageRequests ==
    [page : PageInputs, limit : LimitInputs, per_page : PerPageInputs,
     search : {Null}, industry : {Null}, type : {Null},
     subreddit : {Null}, score_min : {Null}, score_max : {Null},
     sort : {Null, Str(<<"score_asc">>)}, order : {Null}]

ListInputs == FilterRequests \cup SortRequests \cup PageRequests

\* the tables the listing reads: the seeded subreddits, three posts and some of
\* four pain points
ListedSubreddits == SeedRows({}, subredditsData, 0).table

ListedPosts == { PostRow(3, 1, 7, 2), PostRow(4, 2, 3, 9), PostRow(5, 1, 3, 0), PostRow(6, 2, 0, 0) }

ListedPainPoints ==
    { PainPointRow(7, 3, [title |-> <<"a","b">>, description |-> <<"b">>,
                          industryCode |-> <<"DEV_TOOLS">>, typeCode |-> <<"POOR_UX">>,
                          totalScore |-> 8, confidence |-> 90, createdAt |-> 1]),
      PainPointRow(8, 4, [title |-> <<"b">>, description |-> <<"A">>,
                          industryCode |-> <<"SAAS">>, typeCode |-> <<"HIGH_COST">>,
                          totalScore |-> 5, confidence |-> 50, createdAt |-> 2]),
      PainPointRow(9, 5, [title |-> <<"c">>, description |-> <<"c">>,
                          industryCode |-> <<"MARKETING">>, typeCode |-> <<"POOR_UX">>,
                          totalScore |-> 5, confidence |-> 70, createdAt |-> 3]),
      PainPointRow(10, 6, [title |-> <<"c","a">>, description |-> <<>>,
                           industryCode |-> <<"MARKETING">>, typeCode |-> <<"HIGH_COST">>,
                           totalScore |-> 3, confidence |-> 70, createdAt |-> 3]) }

---------------------------------------------------------------------------
(* GET /api/pain-points/[id]                                               *)

\* reasonOf reading the reason of urgency for every dimension
reasonOfUrgency(field, dimension) ==
    OrEmpty(GetOptional(GetOptional(parseJsonField(field), <<"urgency">>), <<"reason">>))

\* parseDimensionReasons(field)?.<dimension>?.reason || ""
reasonOf(field, dimension) ==
    OrEmpty(GetOptional(GetOptional(parseJsonField(field), <<dimension>>), <<"reason">>))

\* the data of the detail response (the fields the claims read)
DetailData(row) ==
    [id |-> row.painPoint.id,
     title |-> row.painPoint.title,
     mentioned_competitors |-> parseJsonField(row.painPoint.mentionedCompetitors),
     quotes |-> parseJsonField(row.painPoint.quotes),
     target_personas |-> parseJsonField(row.painPoint.targetPersonas),
     actionable_insights |-> parseJsonField(row.painPoint.actionableInsights),
     confidence |-> row.painPoint.confidence,
     total_score |-> row.painPoint.totalScore,
     dimension_scores |->
        [d \in Dimensions |->
            [score |-> row.painPoint[ScoreColumn(d)],
             reason |-> reasonOf(row.painPoint.dimensionReasons, d)]],
     tags |-> tagNames(row.painPoint.id),
     post |-> [id |-> row.post.id, score |-> row.post.score,
               num_comments |-> row.post.numComments,
               subreddit |-> IF row.subreddit.id = NULL \/ row.subreddit.name = <<>>
                             THEN Null ELSE Str(row.subreddit.name)],
     created_at |-> row.painPoint.createdAt]

\* the handler, from the id to the response
GET_painPoint(id) ==
    /\ detail = NoDetail
    /\ LET results == {row \in baseQuery : row.painPoint.id = id} IN
          detail' = IF results = {}
                    THEN [phase |-> "done", id |-> id, threw |-> FALSE,
                          resp |-> notFound, data |-> Null]
                    ELSE [phase |-> "done", id |-> id, threw |-> FALSE,
                          resp |-> successResponse,
                          data |-> DetailData(CHOOSE row \in results : TRUE)]
    /\ UNCHANGED <<dbVars, req, ui, list, now, stats, view, parked>>

\* a statement of the handler throws: the catch block answers
GET_painPointThrows(id) ==
    /\ detail = NoDetail
    /\ detail' = [phase |-> "done", id |-> id, threw |-> TRUE, resp |-> caught, data |-> Null]
    /\ UNCHANGED <<dbVars, req, ui, list, now, stats, view, parked>>

---------------------------------------------------------------------------
(* PATCH /api/subreddits/[id]                                              *)

RECURSIVE DigitsOf(_)
\* the decimal digits of a natural number
DigitsOf(n) ==
    IF n < 10 THEN <<DigitChars[n + 1]>>
    ELSE Append(DigitsOf(n \div 10), DigitChars[(n % 10) + 1])

\* String(v): the text parseInt reads when it is handed a value
StringOf(v) ==
    CASE v.t = "string" -> v.v
      [] v.t = "number" -> IF v.v < 0 THEN <<"-">> \o DigitsOf(0 - v.v) ELSE DigitsOf(v.v)
      [] v.t = "boolean" -> IF v.v THEN <<"t","r","u","e">> ELSE <<"f","a","l","s","e">>
      [] v.t = "null" -> <<"n","u","l","l">>
      [] v.t = "undefined" -> <<"u","n","d","e","f","i","n","e","d">>
      [] v.t = "NaN" -> <<"N","a","N">>

validFrequencies == { Str(<<"hourly">>), Str(<<"daily">>), Str(<<"weekly">>) }

\* const limit = parseInt(body.posts_limit, 10)
limitOf(body) == parseInt(StringOf(body.posts_limit))

\* the validation of fetch_frequency fails
invalidFrequency(body) ==
    body.fetch_frequency # Undefined /\ body.fetch_frequency \notin validFrequencies

\* the validation of posts_limit fails: isNaN(limit) || limit < 1 || limit > 500
invalidLimit(body) ==
    /\ body.posts_limit # Undefined
    /\ (limitOf(body).t = "NaN" \/ limitOf(body).v < 1 \/ limitOf(body).v > 500)

\* updateData with the body's name copied into it as well
updateDataWithName(body) ==
    [displayName |-> IF body.name # Undefined THEN body.name ELSE body.display_name,
     description |-> body.description,
     isActive |-> body.is_active,
     fetchFrequency |-> body.fetch_frequency,
     postsLimit |-> IF body.posts_limit # Undefined THEN limitOf(body) ELSE Undefined,
     updatedAt |-> Num(now)]

\* the updateData the handler builds from a body that passes the validations
updateData(body) ==
    [displayName |-> body.display_name,
     description |-> body.description,
     isActive |-> body.is_active,
     fetchFrequency |-> body.fetch_frequency,
     postsLimit |-> IF body.posts_limit # Undefined THEN limitOf(body) ELSE Undefined,
     updatedAt |-> Num(now)]

\* the value a column takes from the value set() is given
ToColumn(column, v) ==
    CASE column \in {"displayName", "description"} -> v
      [] column = "isActive" -> ~ IsFalsy(v)
      [] column \in {"fetchFrequency", "postsLimit", "updatedAt"} -> v.v

\* UPDATE subreddits SET ... on one row
Updated(row, data) ==
    [c \in DOMAIN row |->
        IF c \in DOMAIN data /\ data[c] # Undefined THEN ToColumn(c, data[c]) ELSE row[c]]

\* request.json(), the existence check, and updateData with its two validations
PATCH(id, body) ==
    /\ Quiet
    /\ LET existing == {r \in subreddits : r.id = id}
           r == [IdleReq EXCEPT !.op = "PATCH", !.id = id, !.body = body,
                                !.existing = existing]
       IN  req' = IF existing = {} THEN Respond(r, notFound)
                  ELSE IF invalidFrequency(body) THEN Respond(r, validationError)
                  ELSE IF invalidLimit(body) THEN Respond(r, validationError)
                  ELSE [r EXCEPT !.pc = "patch_update", !.updateData = updateData(body)]
    /\ UNCHANGED <<dbVars, ui, list, readVars>>

\* await db.update(subreddits).set(updateData).where(eq(subreddits.id, id))
PatchUpdate ==
    /\ req.pc = "patch_update"
    /\ subreddits' = {IF r.id = req.id THEN Updated(r, req.updateData) ELSE r : r \in subreddits}
    /\ req' = [req EXCEPT !.pc = "patch_select"]
    /\ UNCHANGED <<posts, painPoints, painPointTags, nextId, ui, list, readVars>>

\* const updated = await db.select()...; const sub = updated[0]; the response.
\* With no row left, sub.id throws a TypeError.
PatchSelect ==
    /\ req.pc = "patch_select"
    /\ req' = IF {r \in subreddits : r.id = req.id} = {} THEN Catch(req)
              ELSE Respond(req, successResponse)
    /\ UNCHANGED <<dbVars, ui, list, readVars>>

\* the clock advances
Tick ==
    /\ now < MaxNow
    /\ now' = now + 1
    /\ UNCHANGED <<dbVars, req, ui, list, detail, stats, view, parked>>

\* bodies of PATCH requests: each field absent, valid and invalid
PatchBodies ==
    [name : { Undefined, Str(<<"o","t","h","e","r">>) },
     display_name : { Undefined, Str(<<"New name">>), Null },
     description : { Undefined, Str(<<"new description">>) },
     is_active : { Undefined, Bool(FALSE) },
     fetch_frequency : { Undefined, Str(<<"weekly">>), Str(<<"monthly">>) },
     posts_limit : { Undefined, Num(1), Num(500), Num(501), Num(0), Str(<<"5","0">>),
                     Str(<<"a","b","c">>), Str(<<"1","2","a","b","c">>) }]

---------------------------------------------------------------------------
(* GET /api/stats                                                          *)

\* 24 * 60 * 60 * 1000 milliseconds, in minutes
DayMinutes == 1440

\* the offset read when the request has no x-timezone-offset header
DefaultOffset == <<"-","4","8","0">>

\* parseInt(request.headers.get("x-timezone-offset") || "-480", 10)
timezoneOffset(header) == parseInt(OrElse(header, Str(DefaultOffset)).v)

\* setUTCHours(0, 0, 0, 0) on an instant: 00:00 of its UTC day
setUTCHours(time) == time - (time % DayMinutes)

\* the instant the handler takes for the start of the caller's day: 00:00 UTC
\* of today plus the offset, and a day earlier when that lies in the future
localMidnight(time, offset) ==
    LET shifted == setUTCHours(time) + offset
    IN  IF shifted > time THEN shifted - DayMinutes ELSE shifted

\* an instant as the text YYYY-MM-DD HH:MM:SS of fixed width, compared as a
\* text: its date, hour and minute fields (the seconds are 00 throughout)
SqlText(time) == << time \div DayMinutes, (time % DayMinutes) \div 60, time % 60 >>

RECURSIVE TextGeq(_, _)
\* a >= b on two texts of the same fixed-width format
TextGeq(a, b) ==
    IF a = <<>> THEN TRUE
    ELSE IF Head(a) # Head(b) THEN Head(a) > Head(b)
    ELSE TextGeq(Tail(a), Tail(b))

todayStr(time, offset) == SqlText(localMidnight(time, offset))

\* count(*) from pain_points where created_at >= todayStr
newToday(today) ==
    Cardinality({ pp \in painPoints : TextGeq(SqlText(pp.createdAt), today) })

RECURSIVE SumOfScores(_)
SumOfScores(rows) ==
    IF rows = {} THEN 0
    ELSE LET r == CHOOSE x \in rows : TRUE
         IN  r.totalScore + SumOfScores(rows \ {r})

\* Math.round(avgScore * 100), avgScore being avg(total_score) or 0 when the
\* table is empty: the average in hundredths
avgScore100 ==
    LET n == Cardinality(painPoints)
    IN  IF n = 0 THEN 0 ELSE (2 * 100 * SumOfScores(painPoints) + n) \div (2 * n)

\* the stats have no data
NoStatsData ==
    [new_today |-> 0, total_pain_points |-> 0, active_subreddits |-> 0,
     pending_posts |-> 0, avg_score100 |-> 0]

\* the handler up to its first query: an offset that is not a number makes
\* localMidnight an invalid date, whose toISOString() throws; otherwise
\* newTodayResult is read
GET_stats(header) ==
    /\ stats = NoStats
    /\ LET offset == timezoneOffset(header)
       IN  stats' =
             IF offset.t = "NaN"
             THEN [phase |-> "done", header |-> header, now |-> now, threw |-> TRUE,
                   localMidnight |-> 0, resp |-> caught, data |-> NoStatsData]
             ELSE [phase |-> "totalResult", header |-> header, now |-> now, threw |-> FALSE,
                   localMidnight |-> localMidnight(now, offset.v),
                   resp |-> NoResponse,
                   data |-> [NoStatsData EXCEPT
                                !.new_today = newToday(todayStr(now, offset.v))]]
    /\ UNCHANGED <<dbVars, req, ui, list, now, detail, view, parked>>

\* const totalResult = await db.select({count}).from(painPoints)
totalResult ==
    /\ stats.phase = "totalResult"
    /\ stats' = [stats EXCEPT !.phase = "activeSubredditsResult",
                              !.data.total_pain_points = Cardinality(painPoints)]
    /\ UNCHANGED <<dbVars, req, ui, list, now, detail, view, parked>>

\* const activeSubredditsResult = await ... where is_active = 1
activeSubredditsResult ==
    /\ stats.phase = "activeSubredditsResult"
    /\ stats' = [stats EXCEPT !.phase = "pendingPostsResult",
                              !.data.active_subreddits =
                                  Cardinality({ s \in subreddits : s.isActive })]
    /\ UNCHANGED <<dbVars, req, ui, list, now, detail, view, parked>>

\* const pendingPostsResult = await ... where process_status = 'pending'
pendingPostsResult ==
    /\ stats.phase = "pendingPostsResult"
    /\ stats' = [stats EXCEPT !.phase = "avgScoreResult",
                              !.data.pending_posts =
                                  Cardinality({ p \in posts : p.processStatus = <<"pending">> })]
    /\ UNCHANGED <<dbVars, req, ui, list, now, detail, view, parked>>

\* const avgScoreResult = await ... avg(total_score), and the response
avgScoreResult ==
    /\ stats.phase = "avgScoreResult"
    /\ stats' = [stats EXCEPT !.phase = "done", !.resp = successResponse,
                              !.data.avg_score100 = avgScore100]
    /\ UNCHANGED <<dbVars, req, ui, list, now, detail, view, parked>>

\* a query of the handler throws
GET_statsThrows(header) ==
    /\ stats = NoStats
    /\ stats' = [phase |-> "done", header |-> header, now |-> now, threw |-> TRUE,
                 localMidnight |-> 0, resp |-> caught, data |-> NoStatsData]
    /\ UNCHANGED <<dbVars, req, ui, list, now, detail, view, parked>>

\* x-timezone-offset headers: absent, empty, String(getTimezoneOffset()) of
\* zones east and west of Greenwich, and a text that is no number
OffsetInputs ==
    { Null, Str(<<>>), Str(<<"-","4","8","0">>), Str(<<"0">>), Str(<<"3","0","0">>),
      Str(<<"-","3","3","0">>), Str(<<"a","b","c">>) }

---------------------------------------------------------------------------
(* The presentation components that show dimension scores.                 *)

\* extractScore of the detail view, the modal and the detail page
extractScore(value) ==
    IF value.t \in {"undefined", "null"} THEN Num(0)
    ELSE IF value.t = "number" THEN value
    ELSE IF value.t \in {"object", "array"} /\ Get(value, "score") # Undefined
         THEN Get(value, "score")
    ELSE Num(0)

\* getDimensionScore of the card
getDimensionScore(value) ==
    IF value.t = "number" THEN value
    ELSE IF value.t \in {"object", "array"} /\ Get(value, "score") # Undefined
         THEN Get(value, "score")
    ELSE Num(0)

\* painPoint.dimension_scores || {}
rawScores(scores) ==
    IF IsFalsy(scores) THEN Object(<<>>) ELSE scores

\* dimensionScores: extractScore of each of the five dimensions
dimensionScores(scores) ==
    [t |-> "object",
     v |-> [d \in Dimensions |-> extractScore(Get(rawScores(scores), d))]]

\* React throws on a child that is an object ("Objects are not valid as a
\* React child")
InvalidChild(value) == value.t = "object"

\* what {score} renders: a number as its digits, undefined and null as nothing
Child(value) == IF value.t = "number" THEN value ELSE Undefined

\* nothing is shown for any dimension
NothingShown == [d \in Dimensions |-> Undefined]

\* a component has rendered, or has thrown while rendering
Rendered(component, scores, threw, shown) ==
    [phase |-> "rendered", component |-> component,
     dimension_scores |-> scores, threw |-> threw, shown |-> shown]

\* DimensionList: {score}/10 for scores.urgency, scores.frequency, ...
DimensionList(component, received, scores) ==
    IF \E d \in Dimensions : InvalidChild(Get(scores, d))
    THEN Rendered(component, received, TRUE, NothingShown)
    ELSE Rendered(component, received, FALSE, [d \in Dimensions |-> Child(Get(scores, d))])

\* the card: one MiniDimensionBar for each entry of dimension_scores
PainPointCard(scores) ==
    /\ view = NoView
    /\ view' = IF IsFalsy(scores)
               THEN Rendered("PainPointCard", scores, FALSE, NothingShown)
               ELSE Rendered("PainPointCard", scores, FALSE,
                             [d \in Dimensions |->
                                 IF d \in DOMAIN scores.v
                                 THEN getDimensionScore(scores.v[d])
                                 ELSE Undefined])
    /\ UNCHANGED <<dbVars, req, ui, list, now, detail, stats, parked>>

\* the detail view, which the modal dialog and the detail page embed
PainPointDetail(scores) ==
    /\ view = NoView
    /\ view' = DimensionList("PainPointDetail", scores,
                             dimensionScores(scores))
    /\ UNCHANGED <<dbVars, req, ui, list, now, detail, stats, parked>>

\* the modal with its own extractScore
PainPointModal(scores) ==
    /\ view = NoView
    /\ view' = DimensionList("PainPointModal", scores,
                             dimensionScores(scores))
    /\ UNCHANGED <<dbVars, req, ui, list, now, detail, stats, parked>>

\* the detail page with its own extractScore
PainPointDetailPage(scores) ==
    /\ view = NoView
    /\ view' = DimensionList("PainPointDetailPage", scores,
                             dimensionScores(scores))
    /\ UNCHANGED <<dbVars, req, ui, list, now, detail, stats, parked>>

\* the drawer: DimensionList on painPoint.dimension_scores as received
PainPointDrawer(scores) ==
    /\ view = NoView
    /\ view' = IF IsFalsy(scores)
               THEN Rendered("PainPointDrawer", scores, FALSE, NothingShown)
               ELSE DimensionList("PainPointDrawer", scores, scores)
    /\ UNCHANGED <<dbVars, req, ui, list, now, detail, stats, parked>>

\* the scores stored for a dimension
ScoreInputs == {0, 8}

\* how a dimension is stored: missing, or a score in either historical format
FormatInputs == { <<"missing", 0>> } \cup ({"number", "object"} \X ScoreInputs)

\* the value of a dimension stored in a format
DimensionValue(format) ==
    CASE format[1] = "missing" -> Undefined
      [] format[1] = "number" -> Num(format[2])
      [] format[1] = "object" ->
            Object(<< <<"score", Num(format[2])>>, <<"reason", Str(<<"r">>)>> >>)

\* the pain points a component is handed: dimension_scores absent, or each
\* dimension in one of the formats
PainPointInputs ==
    { [present |-> FALSE, formats |-> [d \in Dimensions |-> <<"missing", 0>>]] }
    \cup { [present |-> TRUE, formats |-> f] : f \in [Dimensions -> FormatInputs] }

\* painPoint.dimension_scores: an object holding the dimensions that are not
\* missing
dimension_scores(painPoint) ==
    IF ~ painPoint.present THEN Undefined
    ELSE [t |-> "object",
          v |-> [d \in { e \in Dimensions : painPoint.formats[e][1] # "missing" } |->
                    DimensionValue(painPoint.formats[d])]]

---------------------------------------------------------------------------
(* Statements that throw inside the subreddit handlers.                    *)

\* the first awaited statement of a handler throws: request.json() on a body
\* that is not JSON (POST, PATCH) or the first query
Rejects(op, id) ==
    /\ Quiet
    /\ req' = Catch([IdleReq EXCEPT !.op = op, !.id = id])
    /\ UNCHANGED <<dbVars, ui, list, readVars>>

\* the statement the handler has reached throws
StatementThrows ==
    /\ ~ Quiet
    /\ req' = Catch(req)
    /\ UNCHANGED <<dbVars, ui, list, readVars>>

---------------------------------------------------------------------------
(* Two handlers in flight.                                                 *)

\* the event loop with handlers that run from request to response in one piece
SwitchWhenQuiet ==
    /\ Quiet
    /\ req' = parked
    /\ parked' = req
    /\ UNCHANGED <<dbVars, ui, list, now, detail, stats, view>>

\* the handler in req reaches an await (or has returned) and the event loop
\* resumes the other handler, or is free to take the next request
Switch ==
    /\ req' = parked
    /\ parked' = req
    /\ UNCHANGED <<dbVars, ui, list, now, detail, stats, view>>

\* the rows a DELETE statement is about to remove are still referred to
Referenced ==
    \/ /\ req.pc = "deletePainPoints"
       /\ \E t \in painPointTags : t.painPointId \in req.painPointIds
    \/ /\ req.pc = "deletePosts"
       /\ \E pp \in painPoints : pp.postId \in req.postIds
    \/ /\ req.pc = "deleteSubreddit"
       /\ \E p \in posts : p.subredditId = req.id

\* a database that enforces the foreign keys (ON DELETE no action) rejects the
\* statement, and the handler's catch block answers; one that does not
\* enforce them runs the statement
ForeignKeyFails ==
    /\ Referenced
    /\ req' = Catch(req)
    /\ UNCHANGED <<dbVars, ui, list, readVars>>

---------------------------------------------------------------------------
(* Specifications.                                                         *)

Init ==
    /\ subreddits = {}
    /\ posts = {}
    /\ painPoints = {}
    /\ painPointTags = {}
    /\ nextId = 0
    /\ req = IdleReq
    /\ ui = IdleUi
    /\ list = NoList
    /\ Unread

\* creating subreddits: seed runs and POST requests, one at a time
NextCreate ==
    \/ seed
    \/ \E body \in BodyInputs : POST(body)
    \/ PostInsert

SpecCreate == Init /\ [][NextCreate]_vars

\* deleting subreddits: the seeded subreddits, the pipeline's rows, and GET and
\* DELETE requests from an API client or the page, one request at a time
NextDelete ==
    \/ seed
    \/ \E s \in Ids(subreddits) : InsertPost(s)
    \/ \E p \in Ids(posts) : InsertPainPoint(p)
    \/ \E pp \in Ids(painPoints), t \in 1..MaxTags : InsertPainPointTag(pp, t)
    \/ \E id \in IdInputs : GET(id)
    \/ \E id \in IdInputs : DELETE(id)
    \/ DeleteRelatedPosts
    \/ DeleteRelatedPainPoints
    \/ DeletePainPointTags
    \/ DeletePainPoints
    \/ DeletePosts
    \/ DeleteSubreddit
    \/ \E s \in subreddits : handleDeleteClick(s)
    \/ handleDeleteConfirm
    \/ handleDeleteSettled

SpecDelete == Init /\ [][NextDelete]_vars

\* the listing: one request over each of the tables it may find
InitList ==
    /\ subreddits = ListedSubreddits
    /\ posts = ListedPosts
    /\ painPoints \in SUBSET ListedPainPoints
    /\ painPointTags = {}
    /\ nextId = 10
    /\ req = IdleReq
    /\ ui = IdleUi
    /\ list = NoList
    /\ Unread

NextList == \E params \in ListInputs : GET_painPoints(params)

SpecList == InitList /\ [][NextList]_vars

\* the tables the requests by id find: the seeded subreddits, one post with its
\* pain point and tag
RequestedPosts == { PostRow(3, 1, 7, 2) }

RequestedPainPoints == { PainPointRow(4, 3, DefaultAnalysis) }

InitRequest ==
    /\ subreddits = ListedSubreddits
    /\ posts = RequestedPosts
    /\ painPoints = RequestedPainPoints
    /\ painPointTags = { PainPointTagRow(4, 1) }
    /\ nextId = 4
    /\ req = IdleReq
    /\ ui = IdleUi
    /\ list = NoList
    /\ Unread

\* no request has been sent to the subreddit handlers yet
FirstRequest == req.op = "none"

\* one PATCH request at any time of the clock
NextPatch ==
    \/ Tick
    \/ \E id \in IdInputs, body \in PatchBodies : FirstRequest /\ PATCH(id, body)
    \/ PatchUpdate
    \/ PatchSelect

SpecPatch == InitRequest /\ [][NextPatch]_vars

\* PATCH bodies for the requests by id: empty, valid, and one invalid field
RequestedPatchBodies ==
    { EmptyBody,
      [EmptyBody EXCEPT !.display_name = Str(<<"New name">>)],
      [EmptyBody EXCEPT !.fetch_frequency = Str(<<"monthly">>)],
      [EmptyBody EXCEPT !.posts_limit = Num(0)] }

\* one request to the subreddit handlers and one for the detail of a pain
\* point, with the statements that may throw
NextRequest ==
    \/ \E id \in IdInputs : FirstRequest /\ GET(id)
    \/ \E id \in IdInputs, body \in RequestedPatchBodies : FirstRequest /\ PATCH(id, body)
    \/ PatchUpdate
    \/ PatchSelect
    \/ \E body \in BodyInputs : FirstRequest /\ POST(body)
    \/ PostInsert
    \/ \E id \in IdInputs : FirstRequest /\ DELETE(id)
    \/ DeleteRelatedPosts
    \/ DeleteRelatedPainPoints
    \/ DeletePainPointTags
    \/ DeletePainPoints
    \/ DeletePosts
    \/ DeleteSubreddit
    \/ \E op \in {"GET", "PATCH", "POST", "DELETE"}, id \in IdInputs :
          FirstRequest /\ Rejects(op, IF op = "POST" THEN NULL ELSE id)
    \/ StatementThrows
    \/ \E id \in IdInputs : GET_painPoint(id)
    \/ \E id \in IdInputs : GET_painPointThrows(id)

SpecRequest == InitRequest /\ [][NextRequest]_vars

---------------------------------------------------------------------------
(* The stored analyses the listing and the detail handler format.          *)

\* the text of a JSON string
Quoted(piece) == <<"\"", piece, "\"">>

\* "<dimension>": {"reason": "<reason>"}
ReasonMember(dimension, reason) ==
    Quoted(dimension) \o <<":", "{">> \o Quoted("reason") \o <<":">> \o Quoted(reason) \o <<"}">>

\* the dimension_reasons text with a reason for each of the five dimensions
AllReasons ==
    <<"{">> \o ReasonMember("urgency", "r1") \o <<",">>
            \o ReasonMember("frequency", "r2") \o <<",">>
            \o ReasonMember("market_size", "r3") \o <<",">>
            \o ReasonMember("monetization", "r4") \o <<",">>
            \o ReasonMember("barrier_to_entry", "r5") \o <<"}">>

\* dimension_reasons as stored: null, empty, complete, with dimensions missing,
\* with an empty and a null reason, cut short, with a reason as a bare text,
\* and the texts of null, a number and an array
DimensionReasonsInputs ==
    { Null, Str(<<>>), Str(AllReasons),
      Str(<<"{">> \o ReasonMember("urgency", "r1") \o <<"}">>),
      Str(<<"{">> \o ReasonMember("urgency", "") \o <<",">> \o Quoted("frequency")
                  \o <<":", "{">> \o Quoted("reason") \o <<":", "null", "}", "}">>),
      Str(SubSeq(AllReasons, 1, Len(AllReasons) - 1)),
      Str(<<"{">> \o Quoted("urgency") \o <<":">> \o Quoted("r1") \o <<"}">>),
      Str(<<"null">>), Str(<<"4", "2">>), Str(<<"[", "]">>) }

\* an array column as stored: null, empty, an array of two, cut short, bare
\* words, and an object
ArrayColumnInputs ==
    { Null, Str(<<>>),
      Str(<<"[">> \o Quoted("Jira") \o <<",">> \o Quoted("Trello") \o <<"]">>),
      Str(<<"[">> \o Quoted("Jira") \o <<",">>),
      Str(<<"Jira", "and", "Trello">>),
      Str(<<"{", "}">>) }

\* a well-formed array column
ArrayOfOne == Str(<<"[">> \o Quoted("x") \o <<"]">>)

\* the analyses of the pain point under test
AnalysisInputs ==
    { [DefaultAnalysis @@ AnalysisDefaults EXCEPT
          !.scoreUrgency = 7, !.scoreFrequency = 3, !.scoreMarketSize = 5,
          !.scoreMonetization = score, !.scoreBarrierToEntry = 9,
          !.dimensionReasons = reasons,
          !.mentionedCompetitors = competitors, !.quotes = quotes,
          !.targetPersonas = personas, !.actionableInsights = ArrayOfOne] :
        score \in {0, 10},
        reasons \in DimensionReasonsInputs,
        competitors \in ArrayColumnInputs,
        quotes \in {Null, ArrayOfOne, Str(<<"[">>)},
        personas \in {ArrayOfOne, Str(<<"]">>)} }

\* the analysis of the other pain point of the page: every column well-formed
WellFormedAnalysis ==
    [DefaultAnalysis @@ AnalysisDefaults EXCEPT
        !.title = <<"o","k">>, !.createdAt = 2,
        !.scoreUrgency = 1, !.scoreFrequency = 2, !.scoreMarketSize = 3,
        !.scoreMonetization = 4, !.scoreBarrierToEntry = 5,
        !.dimensionReasons = Str(AllReasons),
        !.mentionedCompetitors = ArrayOfOne, !.quotes = ArrayOfOne,
        !.targetPersonas = ArrayOfOne, !.actionableInsights = ArrayOfOne]

\* the listing requests of the formats: the first page, and pages of one row
FormatRequests ==
    [page : {Null, Str(<<"2">>)}, limit : {Null, Str(<<"1">>)}, per_page : {Null},
     search : {Null}, industry : {Null}, type : {Null},
     subreddit : {Null}, score_min : {Null}, score_max : {Null},
     sort : {Null}, order : {Null}]

InitFormat ==
    /\ subreddits = ListedSubreddits
    /\ posts = { PostRow(3, 1, 7, 2), PostRow(4, 2, 3, 9) }
    /\ \E a \in AnalysisInputs :
          painPoints = { PainPointRow(5, 3, a), PainPointRow(6, 4, WellFormedAnalysis) }
    /\ painPointTags = { PainPointTagRow(5, 1) }
    /\ nextId = 6
    /\ req = IdleReq
    /\ ui = IdleUi
    /\ list = NoList
    /\ Unread

\* one listing request and one detail request over each stored analysis
NextFormat ==
    \/ \E params \in FormatRequests : GET_painPoints(params)
    \/ \E id \in Ids(painPoints) \cup {nextId + 1} : GET_painPoint(id)

SpecFormat == InitFormat /\ [][NextFormat]_vars

\* hours of the clock the stats are requested at, from the second day on
MaxHours == 48

StatsTimes == { DayMinutes + h * 60 : h \in 0 .. (MaxHours - 1) }

\* the times pain points were created at: every other hour from the first day
CreatedTimes == { h * 120 : h \in 0 .. ((MaxHours \div 2) + 11) }

\* the tables the stats read: the seeded subreddits, a pending and a completed
\* post, an old pain point and one created at any of the times
InitStats ==
    /\ subreddits = ListedSubreddits
    /\ posts = { PostRow(3, 1, 7, 2),
                 [PostRow(4, 2, 3, 9) EXCEPT !.processStatus = <<"completed">>] }
    /\ \E c \in CreatedTimes :
          painPoints = { PainPointRow(5, 3, [DefaultAnalysis EXCEPT !.createdAt = StartTime]),
                         PainPointRow(6, 4, [DefaultAnalysis EXCEPT !.createdAt = c,
                                                                    !.totalScore = 8]) }
    /\ painPointTags = {}
    /\ nextId = 6
    /\ req = IdleReq
    /\ ui = IdleUi
    /\ list = NoList
    /\ now \in StatsTimes
    /\ detail = NoDetail
    /\ stats = NoStats
    /\ view = NoView
    /\ parked = IdleReq

NextStats ==
    \/ \E header \in OffsetInputs : GET_stats(header)
    \/ totalResult
    \/ activeSubredditsResult
    \/ pendingPostsResult
    \/ avgScoreResult
    \/ \E header \in OffsetInputs : GET_statsThrows(header)

SpecStats == InitStats /\ [][NextStats]_vars

\* the components render the dimension scores of a pain point
NextView ==
    \E painPoint \in PainPointInputs :
        \/ PainPointCard(dimension_scores(painPoint))
        \/ PainPointDetail(dimension_scores(painPoint))
        \/ PainPointModal(dimension_scores(painPoint))
        \/ PainPointDetailPage(dimension_scores(painPoint))
        \/ PainPointDrawer(dimension_scores(painPoint))

SpecView == InitRequest /\ [][NextView]_vars

\* the listing without parameters
DefaultList ==
    [page |-> Null, limit |-> Null, per_page |-> Null, search |-> Null,
     industry |-> Null, type |-> Null, subreddit |-> Null, score_min |-> Null,
     score_max |-> Null, sort |-> Null, order |-> Null]

\* two requests in flight at a time, the pipeline's writes and a listing
\* between any two statements of theirs
NextRace ==
    \/ Switch
    \/ \E id \in Ids(ListedSubreddits) : FirstRequest /\ DELETE(id)
    \/ DeleteRelatedPosts
    \/ DeleteRelatedPainPoints
    \/ DeletePainPointTags
    \/ DeletePainPoints
    \/ DeletePosts
    \/ DeleteSubreddit
    \/ ForeignKeyFails
    \/ \E s \in Ids(subreddits) : InsertPost(s)
    \/ \E p \in Ids(posts) : InsertPainPoint(p)
    \/ \E pp \in Ids(painPoints), t \in 1..MaxTags : InsertPainPointTag(pp, t)
    \/ GET_painPoints(DefaultList)

SpecRace == InitRequest /\ [][NextRace]_vars






---------------------------------------------------------------------------
(* Claims.                                                                 *)

DeleteAnswered204 == req.op = "DELETE" /\ req.pc = "done" /\ req.resp.status = 204

\* the DELETE handler is between two of its statements, or takes its first
DeleteRuns == req'.op = "DELETE" /\ req' # req

C1_AllRemoved ==
    DeleteAnswered204 =>
        /\ req.id \notin Ids(subreddits)
        /\ \A p \in posts : p.subredditId # req.id
        /\ \A pp \in painPoints : pp.postId \in Ids(posts)
        /\ \A t \in painPointTags : t.painPointId \in Ids(painPoints)

C1_OthersUntouched ==
    DeleteRuns =>
        /\ \A s \in subreddits : s.id # req'.id => s \in subreddits'
        /\ \A p \in posts : p.subredditId # req'.id => p \in posts'
        /\ \A pp \in painPoints :
              (\E p \in posts : p.id = pp.postId /\ p.subredditId # req'.id)
                 => /\ pp \in painPoints'
                    /\ \A t \in painPointTags : t.painPointId = pp.id => t \in painPointTags'
        /\ subreddits' \subseteq subreddits
        /\ posts' \subseteq posts
        /\ painPoints' \subseteq painPoints
        /\ painPointTags' \subseteq painPointTags

C1_SubsequentGet ==
    /\ (DeleteAnswered204 /\ req'.op = "GET" /\ req'.id = req.id)
          => req'.resp = notFound
    /\ \A id \in 1..nextId : id \notin Ids(subreddits) => id \notin Ids(subreddits')

\* C1: a DELETE of an existing subreddit that runs to completion with no other
\* request or write in between leaves no row of the subreddit, none of its
\* posts, none of their pain points and none of those pain points' tag-links;
\* no step of it removes a row of another subreddit or adds a row; the id is
\* never handed out again and a GET for it that follows answers NOT_FOUND.
C1_DeleteCascades ==
    /\ [] C1_AllRemoved
    /\ [][C1_OthersUntouched /\ C1_SubsequentGet]_vars

\* a DELETE answered 204 that found two posts and a pain point
C1_Witness ==
    /\ DeleteAnswered204
    /\ Cardinality(req.postIds) >= 2
    /\ Cardinality(req.painPointIds) >= 1

\* C2: while the DELETE sent by the page's confirm button runs, no post, pain
\* point or tag-link is removed (only the subreddit row goes).
C2_UiDeleteKeepsRelatedData ==
    [][(req.via = "ui" /\ req.op = "DELETE" /\ ~ Quiet)
          => (posts' = posts /\ painPoints' = painPoints
              /\ painPointTags' = painPointTags)]_vars

\* two names are equal ignoring letter case
SameIgnoringCase(a, b) == toLowerCase(a) = toLowerCase(b)

\* C3: no two subreddit rows have names that are equal ignoring case, and a
\* POST that gets past the existence check, or is answered with success, has a
\* name that no other row's name equals ignoring case.
C3_NoCaseInsensitiveDuplicate ==
    /\ \A r1, r2 \in subreddits :
          SameIgnoringCase(r1.name, r2.name) => r1 = r2
    /\ (req.op = "POST" /\ (req.pc = "post_insert" \/ req.resp = successResponse))
          => \A r \in subreddits :
                SameIgnoringCase(r.name, req.body.name.v) => r.id = req.id

\* the POST handler takes its first step
PostArrives == req'.op = "POST" /\ req' # req /\ req.pc # "post_insert"

\* C4: a POST with a missing or empty name answers VALIDATION_ERROR and one
\* whose name does not match [a-zA-Z0-9_]+ answers INVALID_SUBREDDIT_NAME, the
\* table unchanged in both cases; a POST whose name matches and equals no
\* row's name ignoring case inserts one row, named the lower-cased input, and
\* answers success.
C4_PostValidates ==
    [][/\ PostArrives =>
            LET name == req'.body.name IN
            /\ subreddits' = subreddits
            /\ IsFalsy(name) => req'.resp = validationError
            /\ (~ IsFalsy(name) /\ ~ nameRegexTest(name.v))
                   => req'.resp = invalidSubredditName
            /\ (~ IsFalsy(name) /\ nameRegexTest(name.v)
                  /\ \A r \in subreddits : ~ SameIgnoringCase(r.name, name.v))
                   => req'.pc = "post_insert"
       /\ (req.pc = "post_insert"
             /\ \A r \in subreddits : ~ SameIgnoringCase(r.name, req.body.name.v))
            => /\ req'.resp = successResponse
               /\ \E row \in subreddits' :
                     /\ row.name = toLowerCase(req.body.name.v)
                     /\ row.id \notin Ids(subreddits)
                     /\ subreddits' = subreddits \cup {row}
      ]_vars

\* a POST of a name with capital letters was answered with success
C4_Witness ==
    /\ req.op = "POST"
    /\ req.resp = successResponse
    /\ req.body.name.v # toLowerCase(req.body.name.v)
    /\ \E r \in subreddits : r.id = req.id /\ r.name = toLowerCase(req.body.name.v)

ListAnswered == list # NoList /\ list.phase = "done"

\* every filter the request carries, the subreddit names included
RequestedFilters(params) ==
    conditions(params)
    \o (IF ~ IsFalsy(params.subreddit) THEN subredditCondition(params) ELSE <<>>)

\* C5: the total the listing reports is the number of pain points that satisfy
\* every filter of the request (search, industry codes, type codes, subreddit
\* names, score range), whatever page and limit are.
C5_TotalCountsTheFilteredRows ==
    ListAnswered =>
        list.total.v = Cardinality({row \in baseQuery :
                                      HoldsAll(RequestedFilters(list.params), row)})

\* C6: with industry codes supplied, every returned row has an industry_code
\* among them, whatever other filters the request carries.
C6_IndustryFilterRestrictsRows ==
    (ListAnswered /\ ~ IsFalsy(list.params.industry)) =>
        \A i \in DOMAIN list.data :
            list.data[i].industry_code \in Range(split(list.params.industry.v))

\* the rows the page query's where clause selects
PageMatches == Cardinality({row \in baseQuery : HoldsAll(filteredWhere(list.params), row)})

\* C7: in an answered listing the offset is (page - 1) * limit, the rows
\* returned are those from the offset on, at most limit of them, and
\* totalPages is the least number of pages of that size that hold total rows.
C7_OffsetLimitTotalPages ==
    ListAnswered =>
        /\ list.offset.v = (list.page.v - 1) * list.perPage.v
        /\ Len(list.data) <= list.perPage.v
        /\ Len(list.data) =
              (IF PageMatches - list.offset.v <= 0 THEN 0
               ELSE IF PageMatches - list.offset.v < list.perPage.v
                    THEN PageMatches - list.offset.v ELSE list.perPage.v)
        /\ list.totalPages.v * list.perPage.v >= list.total.v
        /\ (list.totalPages.v - 1) * list.perPage.v < list.total.v

\* page 2 of two, one row on it, three rows in all
C7_Witness ==
    /\ ListAnswered
    /\ list.page.v = 2 /\ list.perPage.v = 2
    /\ list.total.v = 3 /\ list.totalPages.v = 2
    /\ Len(list.data) = 1

\* the page size a text asks for, clamped
ClampedSize(text) ==
    LET n == parseInt(text).v IN IF n < 1 THEN 1 ELSE IF n > 100 THEN 100 ELSE n

\* C8: whatever page, limit and per_page are, the page used is an integer >= 1
\* and the page size used an integer in 1..100; limit is used when given, else
\* per_page, else 20.
C8_PageAndSizeAlwaysClamped ==
    list # NoList =>
        /\ list.page.t = "number" /\ list.page.v >= 1
        /\ list.perPage.t = "number" /\ list.perPage.v \in 1..100
        /\ ~ IsFalsy(list.params.limit)
              => list.perPage.v = ClampedSize(list.params.limit.v)
        /\ (IsFalsy(list.params.limit) /\ ~ IsFalsy(list.params.per_page))
              => list.perPage.v = ClampedSize(list.params.per_page.v)
        /\ (IsFalsy(list.params.limit) /\ IsFalsy(list.params.per_page))
              => list.perPage.v = 20

\* the value the rows of the response carry for an ORDER BY column
ResponseColumn(item, column) ==
    CASE column = "total_score" -> item.total_score
      [] column = "confidence" -> item.confidence
      [] column = "created_at" -> item.created_at
      [] column = "posts.score" -> item.post.score
      [] column = "posts.num_comments" -> item.post.num_comments

\* the response lists its rows by column in direction
DataInOrder(column, direction) ==
    \A i, j \in DOMAIN list.data :
        i < j => IF direction = "asc"
                 THEN ResponseColumn(list.data[i], column) <= ResponseColumn(list.data[j], column)
                 ELSE ResponseColumn(list.data[i], column) >= ResponseColumn(list.data[j], column)

NewStyleSorts == {<<"total_score">>, <<"confidence">>, <<"created_at">>}

\* the legacy values of sort: the column and direction each names
LegacySorts ==
    { <<<<"score_desc">>, "total_score", "desc">>,
      <<<<"score_asc">>, "total_score", "asc">>,
      <<<<"confidence_desc">>, "confidence", "desc">>,
      <<<<"confidence_asc">>, "confidence", "asc">>,
      <<<<"created_at_asc">>, "created_at", "asc">>,
      <<<<"created_at_desc">>, "created_at", "desc">>,
      <<<<"reddit_score_desc">>, "posts.score", "desc">>,
      <<<<"comments_desc">>, "posts.num_comments", "desc">> }

\* C9: for sort total_score, confidence or created_at the rows come ordered by
\* that column, ascending when order is asc and descending otherwise; for each
\* legacy value of sort they come ordered by the column and direction it names.
C9_BothSortStylesSupported ==
    (ListAnswered /\ ~ IsFalsy(list.params.sort)) =>
        LET sort == list.params.sort.v IN
        /\ sort \in NewStyleSorts =>
              LET direction == IF list.params.order = Str(<<"asc">>) THEN "asc" ELSE "desc" IN
              /\ list.orderBy = [column |-> sort[1], direction |-> direction]
              /\ DataInOrder(sort[1], direction)
        /\ \A legacy \in LegacySorts :
              sort = legacy[1] =>
                 /\ list.orderBy = [column |-> legacy[2], direction |-> legacy[3]]
                 /\ DataInOrder(legacy[2], legacy[3])

\* sort=total_score with order=asc answered with three rows, lowest score first
C9_Witness ==
    /\ ListAnswered
    /\ list.params.sort = Str(<<"total_score">>)
    /\ list.params.order = Str(<<"asc">>)
    /\ Len(list.data) >= 3
    /\ list.data[1].total_score < list.data[Len(list.data)].total_score

\* C10: each request is ordered by one column in one direction; with a legacy
\* value of sort the direction is the one in its name whatever order is; with
\* sort absent or not a recognised value the rows come newest first.
C10_OneOrderByPerRequest ==
    ListAnswered =>
        /\ list.orderBy.column \in
              {"total_score", "confidence", "created_at", "posts.score", "posts.num_comments"}
        /\ list.orderBy.direction \in {"asc", "desc"}
        /\ DataInOrder(list.orderBy.column, list.orderBy.direction)
        /\ \A legacy \in LegacySorts :
              list.params.sort = Str(legacy[1]) => list.orderBy.direction = legacy[3]
        /\ (IsFalsy(list.params.sort)
              \/ list.params.sort.v \notin NewStyleSorts \cup {legacy[1] : legacy \in LegacySorts})
              => list.orderBy = [column |-> "created_at", direction |-> "desc"]

\* the legacy sort=score_desc sent with order=asc, answered highest score first
C10_Witness ==
    /\ ListAnswered
    /\ list.params.sort = Str(<<"score_desc">>)
    /\ list.params.order = Str(<<"asc">>)
    /\ Len(list.data) >= 2
    /\ list.data[1].total_score > list.data[Len(list.data)].total_score

\* the text of a whole number
IsNumeral(chars) == chars # <<>> /\ Range(chars) \subseteq Digits

\* a posts_limit that is a number in 1..500, as a JSON number or its numeral
NumberInRange(v) ==
    \/ (v.t = "number" /\ v.v \in 1..500)
    \/ (v.t = "string" /\ IsNumeral(v.v) /\ ParseDigits(v.v, 0) \in 1..500)

\* a body whose fetch_frequency or posts_limit is given and not acceptable
BadPatchBody(body) ==
    \/ (body.fetch_frequency # Undefined
          /\ body.fetch_frequency \notin {Str(<<"hourly">>), Str(<<"daily">>), Str(<<"weekly">>)})
    \/ (body.posts_limit # Undefined /\ ~ NumberInRange(body.posts_limit))

\* C11: a PATCH of an existing subreddit whose body carries a fetch_frequency
\* outside hourly, daily, weekly or a posts_limit that is not a number in 1..500
\* is answered VALIDATION_ERROR 400 at once and the row stays as it was.
C11_PatchRejectsBadFields ==
    (req.op = "PATCH" /\ ~ req.threw /\ req.existing # {} /\ BadPatchBody(req.body)) =>
        /\ req.pc = "done"
        /\ req.resp.code = "VALIDATION_ERROR" /\ req.resp.status = 400
        /\ req.existing \subseteq subreddits

\* the row PATCH leaves for row r when the body passes
PatchedRow(r, body, time) ==
    [id |-> r.id,
     name |-> r.name,
     displayName |-> IF body.display_name # Undefined THEN body.display_name
                                                       ELSE r.displayName,
     description |-> IF body.description # Undefined THEN body.description
                                                      ELSE r.description,
     isActive |-> IF body.is_active # Undefined THEN body.is_active.v ELSE r.isActive,
     fetchFrequency |-> IF body.fetch_frequency # Undefined THEN body.fetch_frequency.v
                                                            ELSE r.fetchFrequency,
     postsLimit |-> IF body.posts_limit # Undefined
                    THEN parseInt(StringOf(body.posts_limit)).v ELSE r.postsLimit,
     lastFetchedAt |-> r.lastFetchedAt,
     createdAt |-> r.createdAt,
     updatedAt |-> time]

\* C12: PATCH writes the table in one step only, and that step replaces the
\* row of the id by the same row with the fields present in the body (among
\* display_name, description, is_active, fetch_frequency, posts_limit) set from
\* it and updated_at set to a time of the request; id, name, last_fetched_at and created_at
\* and every other row stay as they were, whatever else the body carries.
C12_PatchIsPartialUpdate ==
    [][ (req.op = "PATCH" \/ req'.op = "PATCH") =>
          IF req.pc = "patch_update" /\ req'.pc = "patch_select"
          THEN \E time \in StartTime..now :
                  subreddits' = {IF r.id = req.id THEN PatchedRow(r, req.body, time) ELSE r :
                                   r \in subreddits}
          ELSE subreddits' = subreddits ]_vars

\* a PATCH with name and display_name in its body answered 200 after the clock
\* moved: the row keeps its name and creation time, has the new display name
\* and update time, and its posts_limit is the one it had
C12_Witness ==
    /\ req.op = "PATCH" /\ req.pc = "done" /\ req.resp.status = 200
    /\ req.body.name # Undefined
    /\ req.body.display_name = Str(<<"New name">>)
    /\ req.body.posts_limit = Undefined
    /\ \E r \in subreddits, e \in req.existing :
          /\ r.id = req.id
          /\ r.name = e.name /\ r.createdAt = e.createdAt /\ r.postsLimit = e.postsLimit
          /\ r.displayName = Str(<<"New name">>) /\ r.displayName # e.displayName
          /\ r.updatedAt > e.updatedAt

\* C13: GET, PATCH and DELETE of a subreddit id, and GET of a pain-point id,
\* that has no row are answered NOT_FOUND 404 in the step the request arrives
\* (unless a statement throws), and that step changes no table.
C13_UnknownIdIsNotFound ==
    [][ /\ (Quiet /\ req' # req /\ req'.op \in {"GET", "PATCH", "DELETE"}
              /\ ~ req'.threw /\ req'.id \notin Ids(subreddits)) =>
                 /\ req'.pc = "done"
                 /\ req'.resp.code = "NOT_FOUND" /\ req'.resp.status = 404
                 /\ UNCHANGED dbVars
        /\ (detail = NoDetail /\ detail' # NoDetail
              /\ ~ detail'.threw /\ detail'.id \notin Ids(painPoints)) =>
                 /\ detail'.resp.code = "NOT_FOUND" /\ detail'.resp.status = 404
                 /\ UNCHANGED dbVars ]_vars

\* a PATCH of an unknown id with an invalid field, and the detail of an
\* unknown pain point, both answered 404 with the tables as seeded
C13_Witness ==
    /\ req.op = "PATCH" /\ req.id \notin Ids(subreddits)
    /\ req.body.fetch_frequency = Str(<<"monthly">>)
    /\ req.resp.status = 404
    /\ detail # NoDetail /\ detail.id \notin Ids(painPoints) /\ detail.resp.status = 404
    /\ subreddits = ListedSubreddits /\ painPoints = RequestedPainPoints

\* the body of a response is the envelope {success: true, data, meta?} or
\* {success: false, error}
Enveloped(resp) ==
    /\ resp.hasBody
    /\ IF resp.success THEN resp.keys \in {{"success", "data"}, {"success", "data", "meta"}}
                       ELSE resp.keys = {"success", "error"}

\* C14: every response of the subreddit handlers, of the detail handler and of
\* the listing carries the envelope {success: true, data, meta?} or
\* {success: false, error}, and the listing's success response carries meta
\* with page, limit, total and totalPages.
C14_EveryResponseEnveloped ==
    /\ req.pc = "done" => Enveloped(req.resp)
    /\ detail # NoDetail => Enveloped(detail.resp)
    /\ list # NoList =>
          /\ Enveloped(list.resp)
          /\ list.resp.success =>
                /\ "meta" \in list.resp.keys
                /\ DOMAIN list.resp.meta = {"page", "limit", "total", "totalPages"}

\* C15: when a statement of a handler throws (the body is not JSON, a database
\* statement fails), the handler answers DATABASE_ERROR 500 in that step and
\* takes no step after it: nothing is retried.
C15_ExceptionsAnswered500 ==
    [][ /\ (req'.threw /\ ~ req.threw) =>
              /\ req'.pc = "done"
              /\ req'.resp.code = "DATABASE_ERROR" /\ req'.resp.status = 500
              /\ req'.resp.success = FALSE
        /\ req.threw => (req' = req /\ UNCHANGED dbVars)
        /\ (detail = NoDetail /\ detail' # NoDetail /\ detail'.threw) =>
              (detail'.resp.code = "DATABASE_ERROR" /\ detail'.resp.status = 500)
        /\ (detail # NoDetail /\ detail.threw) => detail' = detail ]_vars

\* a DELETE whose statement on posts threw after the pain points were removed,
\* and a detail request that threw
C15_Witness ==
    /\ req.op = "DELETE" /\ req.threw /\ req.resp.status = 500
    /\ painPoints = {} /\ posts = RequestedPosts
    /\ detail # NoDetail /\ detail.threw

\* the stored row of a pain point
StoredPainPoint(id) == CHOOSE pp \in painPoints : pp.id = id

\* the reason a stored dimension_reasons text holds for a dimension: the value
\* at <dimension>.reason when the text parses to an object that has one, and
\* the empty string otherwise
HeldReason(field, dimension) ==
    IF IsFalsy(field) \/ ~ JSONparse(field.v).ok THEN Str(<<>>)
    ELSE LET parsed == JSONparse(field.v).v IN
         IF parsed.t # "object" \/ <<dimension>> \notin DOMAIN parsed.v THEN Str(<<>>)
         ELSE LET of == parsed.v[<<dimension>>] IN
              IF of.t # "object" \/ <<"reason">> \notin DOMAIN of.v THEN Str(<<>>)
              ELSE IF IsFalsy(of.v[<<"reason">>]) THEN Str(<<>>)
              ELSE of.v[<<"reason">>]

\* C16: the detail of a stored pain point is answered 200 and, for each of the
\* five dimensions, dimension_scores.<dim>.score is the integer of the
\* dimension's column and .reason the reason dimension_reasons holds for it, or
\* the empty string when the column is null, is not JSON or holds none.
C16_DetailScoresAndReasons ==
    (detail # NoDetail /\ detail.id \in Ids(painPoints)) =>
        /\ detail.resp.status = 200
        /\ \A d \in Dimensions :
              /\ detail.data.dimension_scores[d].score = StoredPainPoint(detail.id)[ScoreColumn(d)]
              /\ detail.data.dimension_scores[d].reason =
                    HeldReason(StoredPainPoint(detail.id).dimensionReasons, d)

\* the detail of a pain point whose dimension_reasons is cut short: the five
\* stored scores, each with the empty reason
C16_Witness ==
    /\ detail # NoDetail /\ detail.id = 5 /\ detail.resp.status = 200
    /\ StoredPainPoint(5).dimensionReasons = Str(SubSeq(AllReasons, 1, Len(AllReasons) - 1))
    /\ detail.data.dimension_scores["urgency"] = [score |-> 7, reason |-> Str(<<>>)]
    /\ detail.data.dimension_scores["monetization"] = [score |-> 10, reason |-> Str(<<>>)]

\* the array-valued columns and the response field of each
ArrayColumns ==
    { <<"mentionedCompetitors", "mentioned_competitors">>, <<"quotes", "quotes">>,
      <<"targetPersonas", "target_personas">>, <<"actionableInsights", "actionable_insights">> }

\* a stored text that is not JSON
NotJson(field) == ~ IsFalsy(field) /\ ~ JSONparse(field.v).ok

\* the array-valued fields of a response item against the stored row: null for
\* a text that is not JSON, the parsed value for one that is
ArrayFieldsTolerant(item, pp) ==
    \A c \in ArrayColumns :
        /\ NotJson(pp[c[1]]) => item[c[2]] = Null
        /\ (~ IsFalsy(pp[c[1]]) /\ ~ NotJson(pp[c[1]])) => item[c[2]] = JSONparse(pp[c[1]].v).v

\* C17: an array-valued column whose text is not JSON comes out as null in the
\* listing and in the detail; the row's other array fields carry their parsed
\* values, its plain fields their stored values, the page has every row it
\* should, and the request is answered 200.
C17_MalformedArrayIsNull ==
    /\ list # NoList =>
          /\ list.resp.status = 200
          /\ Len(list.data) = (IF Cardinality(painPoints) - list.offset.v < 0 THEN 0
                               ELSE IF Cardinality(painPoints) - list.offset.v < list.perPage.v
                                    THEN Cardinality(painPoints) - list.offset.v
                                    ELSE list.perPage.v)
          /\ \A i \in DOMAIN list.data :
                LET pp == StoredPainPoint(list.data[i].id) IN
                /\ ArrayFieldsTolerant(list.data[i], pp)
                /\ list.data[i].title = pp.title
                /\ list.data[i].total_score = pp.totalScore
                /\ \A d \in Dimensions : list.data[i].dimension_scores[d] = pp[ScoreColumn(d)]
    /\ (detail # NoDetail /\ detail.id \in Ids(painPoints)) =>
          LET pp == StoredPainPoint(detail.id) IN
          /\ detail.resp.status = 200
          /\ ArrayFieldsTolerant(detail.data, pp)
          /\ detail.data.title = pp.title
          /\ detail.data.total_score = pp.totalScore

\* a page of two rows and the detail of the first: mentioned_competitors cut
\* short comes out null beside a parsed actionable_insights, and the other
\* row's mentioned_competitors is parsed
C17_Witness ==
    /\ list # NoList /\ Len(list.data) = 2
    /\ detail # NoDetail /\ detail.id = 5
    /\ NotJson(StoredPainPoint(5).mentionedCompetitors)
    /\ detail.data.mentioned_competitors = Null
    /\ detail.data.actionable_insights = Array(<<Str(<<"x">>)>>)
    /\ \E i, j \in DOMAIN list.data :
          /\ list.data[i].id = 5 /\ list.data[i].mentioned_competitors = Null
          /\ list.data[i].actionable_insights = Array(<<Str(<<"x">>)>>)
          /\ list.data[j].id = 6 /\ list.data[j].mentioned_competitors = Array(<<Str(<<"x">>)>>)

\* C18: in the listing, a pain point whose dimension_reasons column is missing
\* (null or empty) has dimension_reasons with the five dimension keys, each
\* mapped to the empty string.
C18_MissingReasonsAreEmptyStrings ==
    list # NoList =>
        \A i \in DOMAIN list.data :
            IsFalsy(StoredPainPoint(list.data[i].id).dimensionReasons) =>
                /\ DOMAIN list.data[i].dimension_reasons = Dimensions
                /\ \A d \in Dimensions : list.data[i].dimension_reasons[d] = Str(<<>>)

---------------------------------------------------------------------------
\* the offset the caller states: the header's signed minutes, -480 without one
StatedOffset(header) == IF IsFalsy(header) THEN 0 - 480 ELSE parseInt(header.v).v

\* the header is absent or a signed number of minutes
OffsetStated(header) == IsFalsy(header) \/ parseInt(header.v).t = "number"

\* the local midnight T for an offset with T <= time < T + 24h
LocalDayStart(time, offset) == time - ((time - offset) % DayMinutes)

\* C19: for every current time and every stated offset the stats succeed and
\* new_today is the number of pain points created at or after the start of the
\* caller's current local day, the local midnight T with T <= now < T + 24h.
C19_NewTodayCountsLocalDay ==
    (stats.phase = "done" /\ ~ stats.threw /\ OffsetStated(stats.header)) =>
        LET T == LocalDayStart(stats.now, StatedOffset(stats.header))
        IN  /\ stats.resp.status = 200
            /\ stats.data.new_today =
                   Cardinality({ pp \in painPoints : pp.createdAt >= T })

---------------------------------------------------------------------------
\* the score a dimension's value stands for in either format, 0 when missing
ScoreMeant(scores, dimension) ==
    IF dimension \notin DOMAIN scores.v THEN 0
    ELSE IF scores.v[dimension].t = "number" THEN scores.v[dimension].v
    ELSE scores.v[dimension].v["score"].v

\* C20: every component that shows dimension scores (card, detail view, modal,
\* detail page, drawer) renders, and shows for each dimension the score n
\* whether it received the bare number n or the object {score: n, reason},
\* and 0 when the dimension is missing.
C20_ComponentsAcceptBothFormats ==
    (view.phase = "rendered" /\ view.dimension_scores.t = "object") =>
        /\ ~ view.threw
        /\ \A d \in Dimensions :
              view.shown[d] = Num(ScoreMeant(view.dimension_scores, d))

---------------------------------------------------------------------------
\* every reference of the three dependent tables finds its row
ReferencesHold ==
    /\ \A t \in painPointTags : t.painPointId \in Ids(painPoints)
    /\ \A pp \in painPoints : pp.postId \in Ids(posts)
    /\ \A p \in posts : p.subredditId \in Ids(subreddits)

\* C21: a DELETE that runs alone removes tag-links before their pain points,
\* pain points before their posts and posts before the subreddit row, so in
\* every state, between any two of its statements too, no tag-link refers to
\* a removed pain point, no pain point to a removed post and no post to a
\* removed subreddit.
C21_DeleteInReferenceOrder ==
    /\ ReferencesHold
    /\ (req.op = "DELETE" /\ req.pc \in {"deletePainPointTags", "deletePainPoints"})
          => Ids(relatedPosts(req.id)) = req.postIds
    /\ (req.op = "DELETE" /\ req.pc \in {"deletePainPointTags", "deletePainPoints",
                                         "deletePosts", "deleteSubreddit"})
          => req.id \in Ids(subreddits)

\* a DELETE between its statements 2 and 3: the pain points and their
\* tag-links are gone, the posts and the subreddit row are still there
C21_Witness ==
    /\ req.op = "DELETE"
    /\ req.pc = "deletePosts"
    /\ req.painPointIds # {}
    /\ req.painPointIds \cap Ids(painPoints) = {}
    /\ req.postIds \subseteq Ids(posts)
    /\ req.id \in Ids(subreddits)

---------------------------------------------------------------------------
\* handler r is a DELETE between two statements, the subreddit row is there,
\* the pain points it selected are removed and posts it selected are not
Partial(r) ==
    /\ r.op = "DELETE"
    /\ r.pc \in {"deletePainPoints", "deletePosts"}
    /\ r.id \in Ids(subreddits)
    /\ r.painPointIds # {}
    /\ \A t \in painPointTags : t.painPointId \notin r.painPointIds
    /\ r.postIds \cap Ids(posts) # {}

\* C22: the DELETE is not atomic: wherever it has removed some and not all of
\* the subreddit's dependent rows and the subreddit row is still there, the
\* handler is at an await at which another handler may run, a second DELETE
\* of the same subreddit is taken up and finds the row, and the pain-point
\* listing is answered from the tables as they are.
C22_DeleteIsNotAtomic ==
    /\ Partial(req) => ENABLED Switch
    /\ (Partial(parked) /\ FirstRequest) => ENABLED DELETE(parked.id)
    /\ (Partial(parked) /\ list = NoList) => ENABLED GET_painPoints(DefaultList)

\* a DELETE waits between its statements 1 and 3, the listing has shown its
\* pain point without the tag, and a second DELETE of the same subreddit has
\* found the post and no pain point
C22_Witness ==
    /\ Partial(parked)
    /\ list # NoList
    /\ \E i \in DOMAIN list.data :
          /\ list.data[i].id \in parked.painPointIds
          /\ list.data[i].tags = {}
          /\ list.data[i].post.subreddit.id = parked.id
    /\ req.op = "DELETE"
    /\ req.id = parked.id
    /\ req.pc = "deletePosts"
    /\ req.postIds # {}
    /\ req.painPointIds = {}

---------------------------------------------------------------------------
\* handler r is a DELETE that has answered 204
Answered204(r) == r.op = "DELETE" /\ r.pc = "done" /\ r.resp.status = 204

\* C24: once a DELETE has answered 204, no post refers to the deleted
\* subreddit and no pain point or tag-link of one of its posts is left, also
\* when the pipeline has inserted posts, pain points or tag-links for the
\* subreddit between the DELETE's statements.
C24_NothingLeftAfter204 ==
    \A r \in {req, parked} :
        Answered204(r) =>
            /\ \A p \in posts : p.subredditId # r.id
            /\ \A pp \in painPoints : pp.postId \notin r.postIds
            /\ \A t \in painPointTags : t.painPointId \notin r.painPointIds

---------------------------------------------------------------------------
\* C23: when the one request is a DELETE that answers DATABASE_ERROR after a
\* statement of its has thrown, the four tables hold what they held before
\* the request: no tag-link, pain point or post has been removed.
C23_FailedDeleteChangesNothing ==
    (req.op = "DELETE" /\ req.pc = "done" /\ req.resp.code = "DATABASE_ERROR") =>
        /\ subreddits = ListedSubreddits
        /\ posts = RequestedPosts
        /\ painPoints = RequestedPainPoints
        /\ painPointTags = { PainPointTagRow(4, 1) }

---------------------------------------------------------------------------
(* Two requests that write table subreddits, each waiting at its awaits     *)
(* while the other runs.                                                    *)

\* the seeded subreddits and nothing fetched for them yet
InitWrite ==
    /\ subreddits = ListedSubreddits
    /\ posts = {}
    /\ painPoints = {}
    /\ painPointTags = {}
    /\ nextId = 2
    /\ req = IdleReq
    /\ ui = IdleUi
    /\ list = NoList
    /\ Unread

\* bodies of POST requests: one name in two spellings, fetch_frequency and
\* posts_limit absent or outside what PATCH accepts
WrittenBodies ==
    { [EmptyBody EXCEPT !.name = n, !.fetch_frequency = f, !.posts_limit = l] :
        n \in { Str(<<"R","u","s","t">>), Str(<<"r","u","s","t">>) },
        f \in { Undefined, Str(<<"monthly">>) },
        l \in { Undefined, Num(501) } }

NextWrite ==
    \/ Switch
    \/ \E body \in WrittenBodies : FirstRequest /\ POST(body)
    \/ PostInsert
    \/ \E id \in Ids(ListedSubreddits), body \in RequestedPatchBodies :
          FirstRequest /\ PATCH(id, body)
    \/ PatchUpdate
    \/ PatchSelect
    \/ \E id \in Ids(ListedSubreddits) : FirstRequest /\ DELETE(id)
    \/ DeleteRelatedPosts
    \/ DeleteSubreddit

SpecWrite == InitWrite /\ [][NextWrite]_vars

---------------------------------------------------------------------------
\* both handlers are POSTs that have answered, for one name ignoring case
BothPosted ==
    /\ req.op = "POST" /\ req.pc = "done"
    /\ parked.op = "POST" /\ parked.pc = "done"
    /\ toLowerCase(req.body.name.v) = toLowerCase(parked.body.name.v)

\* C25: when two POST requests for one subreddit name (ignoring case) have
\* both answered, table subreddits holds exactly one row of that name, one of
\* the two has answered success and the other SUBREDDIT_EXISTS.
C25_OneCreatedOtherExists ==
    BothPosted =>
        /\ Cardinality({r \in subreddits : r.name = toLowerCase(req.body.name.v)}) = 1
        /\ {req.resp.code, parked.resp.code} = {"OK", "SUBREDDIT_EXISTS"}

---------------------------------------------------------------------------
\* handler r is a PATCH of id that has answered
Patched(r, id) == r.op = "PATCH" /\ r.pc = "done" /\ r.id = id

\* handler r is a DELETE of id that has answered
Deleted(r, id) == r.op = "DELETE" /\ r.pc = "done" /\ r.id = id

\* C26: when a PATCH and a DELETE of one subreddit have both answered, the
\* PATCH has answered the updated record or NOT_FOUND (or refused the body),
\* never DATABASE_ERROR, and no row of the subreddit is left.
C26_PatchRacingDelete ==
    \A id \in Ids(ListedSubreddits) :
        \A r \in {req, parked} :
            (Patched(r, id) /\ (Deleted(req, id) \/ Deleted(parked, id))) =>
                /\ r.resp.code \in {"OK", "NOT_FOUND", "VALIDATION_ERROR"}
                /\ id \notin Ids(subreddits)

---------------------------------------------------------------------------
\* C27: every stored subreddit has fetch_frequency hourly, daily or weekly,
\* posts_limit an integer from 1 to 500 and is_active a boolean, whatever POST
\* and PATCH requests have been served.
C27_StoredSettingsValid ==
    \A r \in subreddits :
        /\ Str(r.fetchFrequency) \in validFrequencies
        /\ r.postsLimit \in 1..500
        /\ r.isActive \in BOOLEAN

---------------------------------------------------------------------------
\* the page's DELETE has been answered 204 and handleDeleteConfirm has run on
UiDeleteSettled ==
    /\ req.op = "DELETE" /\ req.via = "ui" /\ req.pc = "done"
    /\ req.resp.status = 204
    /\ ~ ui.isPending

\* C28: when the DELETE sent by the page has been answered 204 and the page
\* has taken the answer, deleteSubreddit has not thrown: the page shows the
\* success toast.
C28_UiDeleteResolves == UiDeleteSettled => ui.toast = "success"

---------------------------------------------------------------------------
(* HomePage: the listing through getPainPoints and usePainPoints, and the   *)
(* pager.                                                                   *)

\* the page size of DEFAULT_FILTERS (limit: 12 in the source), scaled down so
\* that the handful of pain points of InitList fills more than one page
DefaultLimit == 1

DEFAULT_FILTERS ==
    [page |-> Num(1), limit |-> Num(DefaultLimit), industry |-> Undefined,
     sort |-> Str(<<"total_score">>), order |-> Str(<<"desc">>)]

\* if (query?.x) params.set("x", String(query.x))
QueryParam(v) == IF IsFalsy(v) THEN Null ELSE Str(StringOf(v))

\* getPainPoints: the query string the client sends
getPainPoints(query) ==
    [DefaultList EXCEPT !.page = QueryParam(query.page),
                        !.limit = QueryParam(query.limit),
                        !.industry = QueryParam(query.industry),
                        !.sort = QueryParam(query.sort),
                        !.order = QueryParam(query.order)]

\* response.json() of the listing's answer: the object NextResponse.json was given
JsonBody(l) ==
    [k \in l.resp.keys |->
        CASE k = "success" -> Bool(l.resp.success)
          [] k = "data" -> l.data
          [] k = "meta" -> l.resp.meta
          [] k = "error" -> Str(<<l.resp.code>>)]

\* object[key]: undefined for a key the object does not have
Member(object, key) == IF key \in DOMAIN object THEN object[key] ELSE Undefined

\* usePainPoints' select: painPoints: data.data || [], pagination: data.pagination
usePainPoints(data) ==
    [painPoints |-> IF "data" \in DOMAIN data THEN data["data"] ELSE <<>>,
     pagination |-> Member(data, "pagination")]

\* the page as it mounts: the first query is under way
HomePageMounted == [phase |-> "loading", filters |-> DEFAULT_FILTERS, data |-> Undefined]

\* the query function runs: GET /api/pain-points with the filters
HomePageQuery ==
    /\ view.phase = "loading"
    /\ GET_painPoints(getPainPoints(view.filters))

\* the query settles and the page renders: isError when fetchApi threw
HomePageRender ==
    /\ view.phase = "loading"
    /\ list # NoList
    /\ view' = IF fetchApiThrows(list.resp)
               THEN [view EXCEPT !.phase = "error"]
               ELSE [view EXCEPT !.phase = "shown", !.data = usePainPoints(JsonBody(list))]
    /\ UNCHANGED <<dbVars, req, ui, list, now, detail, stats, parked>>

\* setFilters with filters that differ starts a new query
setFilters(filters) ==
    IF filters = view.filters
    THEN UNCHANGED <<view, list>>
    ELSE /\ view' = [view EXCEPT !.phase = "loading", !.filters = filters]
         /\ list' = NoList

\* the pager is rendered: pagination && pagination.totalPages > 1, in the
\* branch of a list that is not empty
PagerShown ==
    /\ view.phase = "shown"
    /\ Len(view.data.painPoints) # 0
    /\ view.data.pagination # Undefined
    /\ view.data.pagination.totalPages.v > 1

handlePrevPage ==
    /\ view.phase = "shown"
    /\ IF view.data.pagination # Undefined /\ view.data.pagination.page.v > 1
       THEN setFilters([view.filters EXCEPT !.page = Num(view.filters.page.v - 1)])
       ELSE UNCHANGED <<view, list>>
    /\ UNCHANGED <<dbVars, req, ui, now, detail, stats, parked>>

handleNextPage ==
    /\ view.phase = "shown"
    /\ IF /\ view.data.pagination # Undefined
          /\ view.data.pagination.page.v < view.data.pagination.totalPages.v
       THEN setFilters([view.filters EXCEPT !.page = Num(OrElse(view.filters.page, Num(1)).v + 1)])
       ELSE UNCHANGED <<view, list>>
    /\ UNCHANGED <<dbVars, req, ui, now, detail, stats, parked>>

\* FilterBar's onFiltersChange
handleFiltersChange(newFilters) ==
    /\ view.phase = "shown"
    /\ setFilters(newFilters)
    /\ UNCHANGED <<dbVars, req, ui, now, detail, stats, parked>>

\* FilterBar's onClear
handleClearFilters ==
    /\ view.phase = "shown"
    /\ setFilters(DEFAULT_FILTERS)
    /\ UNCHANGED <<dbVars, req, ui, now, detail, stats, parked>>

\* the industries FilterBar offers here, each change going back to page 1
FilterBarChanges ==
    { [view.filters EXCEPT !.industry = i, !.page = Num(1)] :
        i \in { Undefined, Str(<<"DEV_TOOLS">>), Str(<<"MARKETING">>) } }

InitHome ==
    /\ subreddits = ListedSubreddits
    /\ posts = ListedPosts
    /\ painPoints \in SUBSET ListedPainPoints
    /\ painPointTags = {}
    /\ nextId = 10
    /\ req = IdleReq
    /\ ui = IdleUi
    /\ list = NoList
    /\ now = StartTime
    /\ detail = NoDetail
    /\ stats = NoStats
    /\ parked = IdleReq
    /\ view = HomePageMounted

NextHome ==
    \/ HomePageQuery
    \/ HomePageRender
    \/ handlePrevPage
    \/ handleNextPage
    \/ \E newFilters \in FilterBarChanges : handleFiltersChange(newFilters)
    \/ handleClearFilters

SpecHome == InitHome /\ [][NextHome]_vars

---------------------------------------------------------------------------
\* the page has rendered a listing that reports more than one page
SeveralPagesListed ==
    /\ view.phase = "shown"
    /\ list # NoList
    /\ list.phase = "done"
    /\ list.totalPages.v > 1

\* C29: whenever the page has rendered a listing whose answer reports
\* totalPages > 1, usePainPoints has given it a pagination with the page,
\* total and totalPages of the answer, the pager is shown, and from a page
\* before the last the next-page handler is about to move one page on.
C29_PagerFollowsListing ==
    SeveralPagesListed =>
        /\ view.data.pagination # Undefined
        /\ view.data.pagination.page = list.page
        /\ view.data.pagination.total = list.total
        /\ view.data.pagination.totalPages = list.totalPages
        /\ PagerShown
        /\ list.page.v < list.totalPages.v =>
              ENABLED (handleNextPage /\ view'.filters.page.v = list.page.v + 1)

---------------------------------------------------------------------------
(* The stats read while the tables are written.                             *)

\* the tables of InitRequest on the second day: the post not analysed yet, or
\* with its pain point, an old one or one of today, and the tag
InitStatsRace ==
    /\ subreddits = ListedSubreddits
    /\ posts = RequestedPosts
    /\ \/ painPoints = {} /\ painPointTags = {}
       \/ /\ \E c \in { StartTime, DayMinutes } :
                painPoints = { PainPointRow(4, 3, [DefaultAnalysis EXCEPT !.createdAt = c]) }
          /\ painPointTags = { PainPointTagRow(4, 1) }
    /\ nextId = 4
    /\ req = IdleReq
    /\ ui = IdleUi
    /\ list = NoList
    /\ now = DayMinutes
    /\ detail = NoDetail
    /\ stats = NoStats
    /\ view = NoView
    /\ parked = IdleReq

\* one stats request, its queries one at a time, with one DELETE and the
\* pipeline's inserts between them
NextStatsRace ==
    \/ \E header \in { Null, Str(<<"0">>) } : GET_stats(header)
    \/ totalResult
    \/ activeSubredditsResult
    \/ pendingPostsResult
    \/ avgScoreResult
    \/ \E id \in Ids(ListedSubreddits) : FirstRequest /\ DELETE(id)
    \/ DeleteRelatedPosts
    \/ DeleteRelatedPainPoints
    \/ DeletePainPointTags
    \/ DeletePainPoints
    \/ DeletePosts
    \/ DeleteSubreddit
    \/ \E p \in Ids(posts) : InsertPainPoint(p)

SpecStatsRace == InitStatsRace /\ [][NextStatsRace]_vars

\* C30: every stats response is consistent in itself, also when pain points
\* are inserted or deleted between the handler's queries: new_today is at most
\* total_pain_points.
C30_StatsConsistent ==
    (stats.phase = "done" /\ ~ stats.threw) =>
        stats.data.new_today <= stats.data.total_pain_points

====
